---- MODULE Spec2Model ----
(***************************************************************************)
(* Model of metal.js Component (src/src/component/Component.js): surface   *)
(* rendering, caching, placeholder expansion and the component lifecycle.  *)
(*                                                                         *)
(* Every method of Component is an operator that takes the world (all      *)
(* mutable program state, as one record) and returns the world after the   *)
(* call.  A JavaScript exception is the field err of the world: once set,  *)
(* every later statement of the call is skipped, and what was written      *)
(* before the throw stays written.  A method's return value is the field   *)
(* ret.  One action of the state machine is one public call, run to        *)
(* completion (the program is single threaded and synchronous).            *)
(***************************************************************************)
EXTENDS Integers, Sequences, FiniteSets, TLC

VARIABLES
    comp,       \* component id -> the fields of that Component instance
    surf,       \* Component.surfacesCollector: surface element id -> surface
    reg,        \* ComponentCollector.components: the ids of the registered instances
    heap,       \* the DOM: node -> [tag, id, kids, parent]
    env,        \* what the subclasses and the host supply (fixed by Init)
    last        \* what the last public call did (observation only)

vars == <<comp, surf, reg, heap, env, last>>

----------------------------------------------------------------------------
(* Strings.  A character is a one-character string; an id or a text is a   *)
(* sequence of characters.  Markup is a sequence of tokens: text, an       *)
(* opening tag (with its id attribute), a closing tag, or a surface        *)
(* placeholder.  StrChars gives the JavaScript string a markup stands for. *)

Txt(v) == [k |-> "txt", tag |-> <<>>, v |-> v, n |-> 0, attrs |-> <<>>]
Open(tag, id) == [k |-> "open", tag |-> tag, v |-> id, n |-> 0, attrs |-> <<>>]
Close(tag) == [k |-> "close", tag |-> tag, v |-> <<>>, n |-> 0, attrs |-> <<>>]
NodeItem(n) == [k |-> "node", tag |-> <<>>, v |-> <<>>, n |-> n, attrs |-> <<>>]

\* An opening tag with attributes besides id: [key, val] pairs in the order
\* they are written
OpenWith(tag, id, attrs) == [Open(tag, id) EXCEPT !.attrs = attrs]

DIV == <<"d", "i", "v">>
SPAN == <<"s", "p", "a", "n">>

\* '%%%%~s' + (surfaceElementId ? '-' + surfaceElementId : '') + '~%%%%'
Ph(id) == [k |-> "ph", tag |-> <<>>, v |-> id, n |-> 0, attrs |-> <<>>]

PhOpen == <<"%", "%", "%", "%", "~", "s">>
PhClose == <<"~", "%", "%", "%", "%">>

RECURSIVE AttrChars(_)
AttrChars(attrs) ==
    IF attrs = <<>> THEN <<>>
    ELSE <<" ">> \o Head(attrs).key \o <<"=", "\"">> \o Head(attrs).val \o <<"\"">>
         \o AttrChars(Tail(attrs))

TokChars(t) ==
    CASE t.k = "txt" -> t.v
      [] t.k = "ph" -> PhOpen \o (IF t.v = <<>> THEN <<>> ELSE <<"-">> \o t.v) \o PhClose
      [] t.k = "open" ->
            <<"<">> \o t.tag
            \o (IF t.v = <<>> THEN <<>>
                ELSE <<" ", "i", "d", "=", "\"">> \o t.v \o <<"\"">>)
            \o AttrChars(t.attrs)
            \o <<">">>
      [] t.k = "close" -> <<"<", "/">> \o t.tag \o <<">">>

\* The characters of the tokens s[i..j]
RECURSIVE StrRange(_, _, _)
StrRange(s, i, j) ==
    IF i > j THEN <<>>
    ELSE IF i = j THEN TokChars(s[i])
    ELSE LET m == (i + j) \div 2 IN StrRange(s, i, m) \o StrRange(s, m + 1, j)

StrChars(s) == StrRange(s, 1, Len(s))

CharCode(ch) ==
    CASE ch = " " -> 32 [] ch = "\"" -> 34 [] ch = "%" -> 37 [] ch = "-" -> 45
      [] ch = "/" -> 47 [] ch = "0" -> 48 [] ch = "1" -> 49 [] ch = "2" -> 50
      [] ch = "3" -> 51 [] ch = "4" -> 52 [] ch = "5" -> 53 [] ch = "6" -> 54
      [] ch = "7" -> 55 [] ch = "8" -> 56 [] ch = "9" -> 57
      [] ch = "<" -> 60 [] ch = "=" -> 61 [] ch = ">" -> 62
      [] ch = "H" -> 72 [] ch = "[" -> 91 [] ch = "]" -> 93
      [] ch = "a" -> 97 [] ch = "b" -> 98 [] ch = "c" -> 99 [] ch = "d" -> 100
      [] ch = "e" -> 101 [] ch = "i" -> 105 [] ch = "k" -> 107 [] ch = "l" -> 108
      [] ch = "n" -> 110
      [] ch = "o" -> 111 [] ch = "p" -> 112 [] ch = "s" -> 115 [] ch = "t" -> 116
      [] ch = "v" -> 118 [] ch = "w" -> 119 [] ch = "x" -> 120 [] ch = "y" -> 121
      [] ch = "z" -> 122 [] ch = "~" -> 126

(* JavaScript numbers that matter here are 32-bit hash codes and the two   *)
(* cache sentinels.  A number x is kept as two limbs <<hi, lo>> with       *)
(* x = hi * 2^16 + lo and 0 <= lo < 2^16, so that 31 * h never leaves the  *)
(* range of the model checker's integers.                                  *)
Limb == 2 ^ 16
Num(x) == <<x \div Limb, x % Limb>>

\* The product of two limbs, as a number
Mul16(a, b) ==
    LET p == (a \div 256) * b
        t == (p % 256) * 256 + (a % 256) * b
    IN <<(p \div 256 + t \div Limb) % Limb, t % Limb>>

\* (x * y) % 0x100000000 and (x + y) % 0x100000000
Mul32(x, y) ==
    LET low == Mul16(x[2], y[2])
    IN <<(low[1] + Mul16(x[1], y[2])[2] + Mul16(x[2], y[1])[2]) % Limb, low[2]>>

Add32(x, y) == <<(x[1] + y[1] + (x[2] + y[2]) \div Limb) % Limb, (x[2] + y[2]) % Limb>>

\* The hash of no characters, and the hash of a concatenation from the
\* hashes of its two parts: h1 * 31^len2 + h2
NoChars == [h |-> Num(0), p |-> Num(1)]
HashJoin(l, r) == [h |-> Add32(Mul32(l.h, r.p), r.h), p |-> Mul32(l.p, r.p)]

\* string.hashCode: for every character hash = 31 * hash + charCode,
\* hash %= 0x100000000.  The hash of chars[i..j] from 0, with 31^(j-i+1).
RECURSIVE HashRange(_, _, _)
HashRange(chars, i, j) ==
    IF i > j THEN NoChars
    ELSE IF i = j THEN [h |-> Num(CharCode(chars[i])), p |-> Num(31)]
    ELSE LET m == (i + j) \div 2
             l == HashRange(chars, i, m)
             r == HashRange(chars, m + 1, j)
         IN IF l = NoChars THEN r ELSE IF r = NoChars THEN l ELSE HashJoin(l, r)

hashCode(s) == LET chars == StrChars(s) IN HashRange(chars, 1, Len(chars)).h

\* Component.Cache
NOT_CACHEABLE == Num(-1)
NOT_INITIALIZED == Num(-2)

----------------------------------------------------------------------------
(* The DOM (the dom and document collaborators).  A node is an element or  *)
(* a document fragment (tag FRAGMENT); kids holds, in order, text items    *)
(* and references to child nodes.  parent = 0 is parentNode = null.        *)

BODY == 1
FRAGMENT == <<"#">>
TEXTNODE == <<"#", "t">>

NewNode(h) ==
    LET free == {n \in 1..(Cardinality(DOMAIN h) + 1) : n \notin DOMAIN h}
    IN CHOOSE n \in free : \A m \in free : n <= m

\* document.createElement(tag)
createElement(h, tag) ==
    LET n == NewNode(h)
    IN [heap |-> h @@ (n :> [tag |-> tag, id |-> <<>>, attrs |-> <<>>, kids |-> <<>>,
                             parent |-> 0]),
        n |-> n]

\* node.parentNode.removeChild(node), when it has a parent
Unlink(h, n) ==
    LET p == h[n].parent
    IN IF p = 0 THEN h
       ELSE [h EXCEPT ![p].kids = SelectSeq(@, LAMBDA it : ~(it.k = "node" /\ it.n = n)),
                      ![n].parent = 0]

\* parent.appendChild(n)
appendChild(h, p, n) ==
    [Unlink(h, n) EXCEPT ![n].parent = p, ![p].kids = Append(@, NodeItem(n))]

\* Appending a fragment, or the childNodes of a node: every child of `from`
\* moves, in order, to the end of `to`.
moveChildren(h, from, to) ==
    LET items == h[from].kids
    IN [m \in DOMAIN h |->
          IF m = from THEN [h[m] EXCEPT !.kids = <<>>]
          ELSE IF m = to THEN [h[m] EXCEPT !.kids = @ \o items]
          ELSE IF h[m].parent = from THEN [h[m] EXCEPT !.parent = to]
          ELSE h[m]]

\* parent.insertBefore(n, sibling); sibling = 0 appends
insertBefore(h, p, n, sibling) ==
    LET h1 == [Unlink(h, n) EXCEPT ![n].parent = p]
        ks == h1[p].kids
        at == IF \E i \in DOMAIN ks : ks[i].k = "node" /\ ks[i].n = sibling
              THEN CHOOSE i \in DOMAIN ks : ks[i].k = "node" /\ ks[i].n = sibling
              ELSE Len(ks) + 1
    IN [h1 EXCEPT ![p].kids = SubSeq(ks, 1, at - 1) \o <<NodeItem(n)>> \o SubSeq(ks, at, Len(ks))]

\* dom.replace(element1, element2)
domReplace(h, e1, e2) ==
    IF e1 # 0 /\ e2 # 0 /\ e1 # e2 /\ h[e1].parent # 0
    THEN LET p == h[e1].parent
             h1 == Unlink(h, e2)
         IN [h1 EXCEPT ![p].kids = [i \in DOMAIN @ |->
                                      IF @[i].k = "node" /\ @[i].n = e1 THEN NodeItem(e2) ELSE @[i]],
                       ![e1].parent = 0,
                       ![e2].parent = p]
    ELSE h

\* dom.removeChildren(node)
removeChildren(h, n) ==
    [m \in DOMAIN h |->
        IF m = n THEN [h[m] EXCEPT !.kids = <<>>]
        ELSE IF h[m].parent = n THEN [h[m] EXCEPT !.parent = 0]
        ELSE h[m]]

\* dom.isEmpty(element)
isEmpty(h, n) == h[n].kids = <<>>

\* The HTML parser takes one token: st.stack holds the open elements, the
\* token goes into the last of them.  A close tag without an open element
\* is dropped.
ParseToken(st, t) ==
    LET h == st.heap
        cur == st.stack[Len(st.stack)]
    IN CASE t.k = "open" ->
               LET n == NewNode(h)
                   h1 == h @@ (n :> [tag |-> t.tag, id |-> t.v, attrs |-> t.attrs, kids |-> <<>>,
                                     parent |-> cur])
               IN [heap |-> [h1 EXCEPT ![cur].kids = Append(@, NodeItem(n))],
                   stack |-> Append(st.stack, n)]
         [] t.k = "close" ->
               [st EXCEPT !.stack = IF Len(@) > 1 THEN SubSeq(@, 1, Len(@) - 1) ELSE @]
         [] OTHER ->
               IF t.v = <<>> /\ t.k = "txt" THEN st
               ELSE [st EXCEPT !.heap[cur].kids = Append(@, t)]

\* The tokens toks[i..] into the tree
RECURSIVE ParseFrom(_, _, _)
ParseFrom(st, toks, i) ==
    IF i > Len(toks) \/ st.stack = <<>> THEN st
    ELSE ParseFrom(ParseToken(st, toks[i]), toks, i + 1)

\* dom.buildFragment(htmlString): a new fragment holding the parsed nodes
buildFragment(h, s) ==
    LET f == createElement(h, FRAGMENT)
    IN [heap |-> ParseFrom([heap |-> f.heap, stack |-> <<f.n>>], s, 1).heap, n |-> f.n]

\* node.childNodes[0] as a node of its own (0 when there is none): a text
\* item that is handed around as a node becomes a text node.
firstChild(h, p) ==
    IF h[p].kids = <<>> THEN [heap |-> h, n |-> 0]
    ELSE IF h[p].kids[1].k = "node" THEN [heap |-> h, n |-> h[p].kids[1].n]
    ELSE LET n == NewNode(h)
             h1 == h @@ (n :> [tag |-> TEXTNODE, id |-> <<>>, attrs |-> <<>>,
                               kids |-> <<h[p].kids[1]>>,
                               parent |-> p])
         IN [heap |-> [h1 EXCEPT ![p].kids[1] = NodeItem(n)], n |-> n]

\* The serialization of items (innerHTML, outerHTML)
RECURSIVE Serialize(_, _)
Serialize(h, items) ==
    IF items = <<>> THEN <<>>
    ELSE LET it == Head(items)
         IN (IF it.k = "node" /\ h[it.n].tag = TEXTNODE THEN Serialize(h, h[it.n].kids)
             ELSE IF it.k = "node"
             THEN <<OpenWith(h[it.n].tag, h[it.n].id, h[it.n].attrs)>>
                  \o Serialize(h, h[it.n].kids)
                  \o <<Close(h[it.n].tag)>>
             ELSE <<it>>)
            \o Serialize(h, Tail(items))

outerHTML(h, n) == Serialize(h, <<NodeItem(n)>>)
innerHTML(h, n) == Serialize(h, h[n].kids)

\* The element nodes below items, in document order
RECURSIVE ElementsIn(_, _)
ElementsIn(h, items) ==
    IF items = <<>> THEN <<>>
    ELSE LET it == Head(items)
         IN (IF it.k = "node" /\ h[it.n].tag # TEXTNODE
             THEN <<it.n>> \o ElementsIn(h, h[it.n].kids) ELSE <<>>)
            \o ElementsIn(h, Tail(items))

FirstWithId(h, nodes, id) ==
    LET hits == {i \in DOMAIN nodes : h[nodes[i]].id = id}
    IN IF id = <<>> \/ hits = {} THEN 0
       ELSE nodes[CHOOSE i \in hits : \A j \in hits : i <= j]

\* document.getElementById(id); the document is what hangs under body
getElementById(h, id) == FirstWithId(h, ElementsIn(h, h[BODY].kids), id)

\* element.querySelector('#' + id)
querySelector(h, n, id) == FirstWithId(h, ElementsIn(h, h[n].kids), id)

\* Whether node n is in the document
RECURSIVE InDoc(_, _)
InDoc(h, n) == n = BODY \/ (n # 0 /\ h[n].parent # 0 /\ InDoc(h, h[n].parent))

\* The nodes that can still be reached from `roots`: a node keeps its
\* children and its ancestors.
RECURSIVE Reach(_, _)
Reach(h, S) ==
    LET T == (S \cup {h[n].parent : n \in S}
                \cup UNION {{h[n].kids[i].n : i \in DOMAIN h[n].kids} : n \in S}) \ {0}
    IN IF T \subseteq S THEN S ELSE Reach(h, T)

----------------------------------------------------------------------------
(* Values.  A content is a string (markup), an element, or undefined.      *)

NoId == <<>>
NoErr == ""

Str(s) == [t |-> "str", s |-> s, n |-> 0]
El(n) == [t |-> "el", s |-> <<>>, n |-> n]
Undef == [t |-> "undef", s |-> <<>>, n |-> 0]

isString(x) == x.t = "str"
isDefAndNotNull(x) == x.t # "undef"
\* JavaScript truthiness: undefined and '' are falsy, an element is truthy
Truthy(x) == x.t = "el" \/ (x.t = "str" /\ x.s # <<>>)

\* What string concatenation makes of a value that is no string
ObjText == Txt(<<"[", "o", "]">>)
AsTokens(x) == IF isString(x) THEN x.s ELSE <<ObjText>>

\* An attribute reference inside a template of the environment: the
\* subclass' content functions read the component's attributes.
AttrTok(a) == [k |-> "attr", tag |-> <<>>, v |-> <<a>>, n |-> 0, attrs |-> <<>>]

\* The surface configuration object `{}`
NoCfg ==
    [cacheState |-> NOT_INITIALIZED, renderAttrs |-> <<>>, componentName |-> "",
     componentData |-> <<>>, element |-> 0, handled |-> FALSE, surfaceElementId |-> NoId]

\* An empty object / map
Empty == [x \in {} |-> 0]

\* obj[key] = val on an object whose keys keep their insertion order:
\* a sequence of [key, val]
Put(obj, key, val) ==
    IF \E i \in DOMAIN obj : obj[i].key = key
    THEN [i \in DOMAIN obj |-> IF obj[i].key = key THEN [key |-> key, val |-> val] ELSE obj[i]]
    ELSE Append(obj, [key |-> key, val |-> val])

Keys(obj) == [i \in DOMAIN obj |-> obj[i].key]

\* Appends to a sequence the elements of another that it does not hold yet
RECURSIVE Merge(_, _)
Merge(a, b) ==
    IF b = <<>> THEN a
    ELSE Merge(IF \E i \in DOMAIN a : a[i] = Head(b) THEN a ELSE Append(a, Head(b)), Tail(b))

\* The value an object holds under each of its keys
ObjFn(obj) ==
    [k \in {obj[i].key : i \in DOMAIN obj} |->
       obj[CHOOSE i \in DOMAIN obj : obj[i].key = k].val]

\* Number to decimal string
RECURSIVE Decimal(_)
Decimal(n) ==
    LET d == <<"0", "1", "2", "3", "4", "5", "6", "7", "8", "9">>
    IN IF n < 10 THEN <<d[n + 1]>> ELSE Decimal(n \div 10) \o <<d[(n % 10) + 1]>>

\* haystack.indexOf(needle) !== -1
Contains(haystack, needle) ==
    \E i \in 1..(Len(haystack) - Len(needle) + 1) :
        SubSeq(haystack, i, i + Len(needle) - 1) = needle

----------------------------------------------------------------------------
(* The world threaded through every call.                                  *)

World ==
    [comp |-> comp, surf |-> surf, reg |-> reg, heap |-> heap, env |-> env,
     log |-> <<>>, err |-> NoErr, ret |-> Undef]

Ok(w) == w.err = NoErr
Throw(w, e) == [w EXCEPT !.err = e]
Ret(w, v) == [w EXCEPT !.ret = v]
Ev(e, c, id) == [e |-> e, c |-> c, id |-> id]
Log(w, e, c, id) == [w EXCEPT !.log = Append(@, Ev(e, c, id))]

Class(w, c) == w.env.cls[w.comp[c].cls]

\* Methods call one another through Call, which is defined after them
RECURSIVE Call(_, _, _)

----------------------------------------------------------------------------
(* Component: ids and the surface registry.                                *)


\* hasComponentPrefix_: surfaceId.substr(0, this.id.length + 1) === this.id + '-'
hasComponentPrefix_(c, surfaceId) ==
    /\ Len(surfaceId) >= Len(c) + 1
    /\ SubSeq(surfaceId, 1, Len(c) + 1) = c \o <<"-">>

prefixSurfaceId_(c, surfaceId) == c \o <<"-">> \o surfaceId

\* getSurfaceElementId_ that puts the prefix before every id that is not
\* explicit
getPrefixedElementId(c, surfaceId, surface) ==
    IF surface.surfaceElementId # NoId THEN surface.surfaceElementId
    ELSE prefixSurfaceId_(c, surfaceId)

getSurfaceElementId_(c, surfaceId, surface) ==
    IF surface.surfaceElementId # NoId THEN surface.surfaceElementId
    ELSE IF surface.componentName # "" \/ hasComponentPrefix_(c, surfaceId) THEN surfaceId
    ELSE prefixSurfaceId_(c, surfaceId)

getSurfaceId_(c, surfaceElementId, surface) ==
    IF surface.componentName # "" \/ ~hasComponentPrefix_(c, surfaceElementId)
    THEN surfaceElementId
    ELSE SubSeq(surfaceElementId, Len(c) + 2, Len(surfaceElementId))

\* SurfaceCollector.addSurface: inserts or overwrites the record
collectorAddSurface(w, surfaceElementId, config) ==
    [w EXCEPT !.surf = [k \in DOMAIN @ \cup {surfaceElementId} |->
                           IF k = surfaceElementId THEN config ELSE @[k]]]

\* SurfaceCollector.removeSurface
collectorRemoveSurface(w, surfaceElementId) ==
    [w EXCEPT !.surf = [k \in DOMAIN @ \ {surfaceElementId} |-> @[k]]]

\* getSurface: the registry key of the surface found (surface objects are
\* shared by reference, so callers read and write w.surf[key]); NoId is null.
getSurface(w, c, surfaceId) ==
    LET q == getSurfaceElementId_(c, surfaceId, NoCfg)
    IN IF q \in DOMAIN w.surf THEN q
       ELSE IF surfaceId \in DOMAIN w.surf THEN surfaceId
       ELSE NoId

\* addMissingAttr_
addMissingAttr_(w, c, attrName, initialValue) ==
    IF attrName \in DOMAIN w.comp[c].attrs THEN w
    ELSE [w EXCEPT !.comp[c].attrs = [a \in DOMAIN @ \cup {attrName} |->
                                        IF a = attrName THEN initialValue ELSE @[a]]]

RECURSIVE cacheRenderAttrsLoop(_, _, _, _, _)
cacheRenderAttrsLoop(w, c, surfaceElementId, attrs, optConfig) ==
    IF attrs = <<>> THEN w
    ELSE LET a == Head(attrs)
             known == a \in DOMAIN w.comp[c].sra
             w1 == IF known THEN w
                   ELSE addMissingAttr_(
                          [w EXCEPT !.comp[c].sra = [x \in DOMAIN @ \cup {a} |->
                                                       IF x = a THEN <<>> ELSE @[x]]],
                          c, a, IF a \in DOMAIN optConfig THEN optConfig[a] ELSE <<>>)
             w2 == [w1 EXCEPT !.comp[c].sra[a] = Merge(@, <<surfaceElementId>>)]
         IN cacheRenderAttrsLoop(w2, c, surfaceElementId, Tail(attrs), optConfig)

cacheSurfaceRenderAttrs_(w, c, surfaceElementId, optConfig) ==
    IF ~Ok(w) THEN w
    ELSE LET key == getSurface(w, c, surfaceElementId)
         IN IF key = NoId THEN Throw(w, "TypeError")
            ELSE cacheRenderAttrsLoop(w, c, surfaceElementId, w.surf[key].renderAttrs, optConfig)

\* addSurface that goes on without the nested component when it cannot be
\* created
addSurfaceWithoutComponent(w, c, surfaceId, optSurfaceConfig, optConfig) ==
    IF ~Ok(w) THEN w
    ELSE LET config == [optSurfaceConfig EXCEPT !.cacheState = NOT_INITIALIZED]
             surfaceElementId == getSurfaceElementId_(c, surfaceId, config)
             w1 == [w EXCEPT !.comp[c].surfaceIds = Put(@, surfaceElementId, TRUE)]
             w2 == collectorAddSurface(w1, surfaceElementId, config)
             w3 == IF config.componentName # ""
                   THEN Call(w2, "createSubComponent_",
                             <<c, config.componentName, surfaceElementId>>)
                   ELSE w2
         IN Call(IF Ok(w3) THEN w3 ELSE w2, "cacheSurfaceRenderAttrs_",
                 <<c, surfaceElementId, optConfig>>)

addSurfaceKeepingState(w, c, surfaceId, optSurfaceConfig, optConfig) ==
    IF ~Ok(w) THEN w
    ELSE LET config == optSurfaceConfig
             surfaceElementId == getSurfaceElementId_(c, surfaceId, config)
             w1 == [w EXCEPT !.comp[c].surfaceIds = Put(@, surfaceElementId, TRUE)]
             w2 == collectorAddSurface(w1, surfaceElementId, config)
             w3 == IF config.componentName # ""
                   THEN Call(w2, "createSubComponent_",
                             <<c, config.componentName, surfaceElementId>>)
                   ELSE w2
         IN IF ~Ok(w3) THEN w3
            ELSE Call(w3, "cacheSurfaceRenderAttrs_", <<c, surfaceElementId, optConfig>>)

addSurface(w, c, surfaceId, optSurfaceConfig, optConfig) ==
    IF ~Ok(w) THEN w
    ELSE LET config == [optSurfaceConfig EXCEPT !.cacheState = NOT_INITIALIZED]
             surfaceElementId == getSurfaceElementId_(c, surfaceId, config)
             w1 == [w EXCEPT !.comp[c].surfaceIds = Put(@, surfaceElementId, TRUE)]
             w2 == collectorAddSurface(w1, surfaceElementId, config)
             w3 == IF config.componentName # ""
                   THEN Call(w2, "createSubComponent_",
                             <<c, config.componentName, surfaceElementId>>)
                   ELSE w2
         IN IF ~Ok(w3) THEN w3
            ELSE Call(w3, "cacheSurfaceRenderAttrs_", <<c, surfaceElementId, optConfig>>)

\* addSurfaces / the loop of addSurfacesFromStaticHint_
addSurfaces(w, c, configs, optConfig) ==
    IF ~Ok(w) \/ configs = <<>> THEN w
    ELSE LET w1 == Call(w, "addSurface",
                        <<c, Head(configs).key, Head(configs).val, optConfig>>)
         IN IF ~Ok(w1) THEN w1 ELSE Call(w1, "addSurfaces", <<c, Tail(configs), optConfig>>)

\* new Component(config): the constructor, addSurfacesFromStaticHint_ and created_
Construct(w, cls, id, element, config) ==
    IF ~Ok(w) THEN w
    ELSE LET class == w.env.cls[cls]
             cfg == ObjFn(config)
             made == IF element = 0 THEN createElement(w.heap, class.tag)
                     ELSE [heap |-> w.heap, n |-> element]
             this == [cls |-> cls, disposed |-> FALSE, wasRendered |-> FALSE,
                      inDocument |-> FALSE, decorating |-> FALSE, surfaceIds |-> <<>>,
                      collected |-> <<>>, genCount |-> Empty, components |-> <<>>,
                      elementContent |-> Undef, element |-> made.n, sra |-> Empty,
                      attrs |-> [a \in DOMAIN class.attrs \cup DOMAIN cfg |->
                                   IF a \in DOMAIN cfg THEN cfg[a] ELSE class.attrs[a]],
                      listeners |-> {}, reconfirmed |-> {}]
             w1 == [w EXCEPT !.heap = made.heap,
                             !.comp = [k \in DOMAIN @ \cup {id} |-> IF k = id THEN this ELSE @[k]]]
             w2 == Call(w1, "addSurfaces", <<id, class.surfaces, cfg>>)
         IN IF Ok(w2) THEN [w2 EXCEPT !.reg = @ \cup {id}] ELSE w2

\* ComponentCollector.createComponent
createComponent(w, componentName, componentId, data) ==
    IF ~Ok(w) THEN w
    ELSE IF componentName \notin DOMAIN w.env.cls THEN Throw(w, "Error")
    ELSE Call(Log(w, "create", componentId, NoId), "Construct",
              <<componentName, componentId, 0, data>>)

createSubComponent_(w, c, componentName, componentId) ==
    IF ~Ok(w) THEN w
    ELSE LET key == getSurface(w, c, componentId)
             w1 == IF key = NoId THEN Throw(w, "TypeError")
                   ELSE Call(w, "createComponent",
                             <<componentName, componentId, w.surf[key].componentData>>)
         IN IF Ok(w1) THEN [w1 EXCEPT !.comp[c].components = Merge(@, <<componentId>>)]
            ELSE w1

----------------------------------------------------------------------------
(* Component: surface elements and surface content.                        *)

\* findElementById_
findElementById_(w, c, id) ==
    LET d == getElementById(w.heap, id)
    IN IF d # 0 THEN d ELSE querySelector(w.heap, w.comp[c].element, id)

\* getSurfaceElement; the element (0 for null) is returned in ret.n
getSurfaceElement(w, c, surfaceId) ==
    IF ~Ok(w) THEN w
    ELSE LET key == getSurface(w, c, surfaceId)
         IN IF key = NoId THEN Ret(w, El(0))
            ELSE IF w.surf[key].element # 0 THEN Ret(w, El(w.surf[key].element))
            ELSE IF w.surf[key].componentName # ""
            THEN IF surfaceId \in w.reg
                 THEN Ret([w EXCEPT !.surf[key].element = w.comp[surfaceId].element],
                          El(w.comp[surfaceId].element))
                 ELSE Ret(w, El(0))
            ELSE LET surfaceElementId == getSurfaceElementId_(c, surfaceId, w.surf[key])
                     found == findElementById_(w, c, surfaceElementId)
                     \* createSurfaceElement_
                     made == createElement(w.heap, Class(w, c).surfaceTag)
                 IN IF found # 0
                    THEN Ret([w EXCEPT !.surf[key].element = found], El(found))
                    ELSE Ret([w EXCEPT !.heap = [made.heap EXCEPT ![made.n].id = surfaceElementId],
                                       !.surf[key].element = made.n],
                             El(made.n))

\* What a content function of the subclass returns for a template of the
\* environment: attribute references are replaced by the attribute's value,
\* and an element template is built into a new element.
Instantiate(w, c, tmpl) ==
    LET attrs == w.comp[c].attrs
        toks == [i \in DOMAIN tmpl.s |->
                   IF tmpl.s[i].k = "attr"
                   THEN Txt(IF tmpl.s[i].v[1] \in DOMAIN attrs THEN attrs[tmpl.s[i].v[1]] ELSE <<>>)
                   ELSE tmpl.s[i]]
        f == buildFragment(w.heap, toks)
        first == f.heap[f.n].kids[1].n
    IN CASE tmpl.t = "str" -> Ret(w, Str(toks))
         [] tmpl.t = "el" -> Ret([w EXCEPT !.heap = Unlink(f.heap, first)], El(first))
         [] OTHER -> Ret(w, Undef)

\* getSurfaceContent(surfaceId, surfaceElementId), implemented by the subclass
getSurfaceContent(w, c, surfaceId, surfaceElementId) ==
    LET content == Class(w, c).content
    IN Call(Log(w, "provider", c, surfaceElementId), "Instantiate",
            <<c, IF surfaceId \in DOMAIN content THEN content[surfaceId] ELSE Undef>>)

\* getElementContent(), implemented by the subclass
getElementContent(w, c) ==
    Call(Log(w, "root", c, NoId), "Instantiate", <<c, Class(w, c).root>>)

\* getElementContent_
getElementContent_(w, c) ==
    IF ~Ok(w) THEN w
    ELSE IF Truthy(w.comp[c].elementContent) THEN Ret(w, w.comp[c].elementContent)
    ELSE LET w1 == getElementContent(w, c)
         IN [w1 EXCEPT !.comp[c].elementContent = w1.ret]

getSurfaceContent_(w, c, surfaceElementId) ==
    IF ~Ok(w) THEN w
    ELSE LET key == getSurface(w, c, surfaceElementId)
         IN IF key = NoId THEN Throw(w, "TypeError")
            ELSE IF w.surf[key].componentName # ""
            THEN IF surfaceElementId \notin w.reg THEN Throw(w, "TypeError")
                 ELSE IF w.comp[surfaceElementId].wasRendered THEN Ret(w, Str(<<>>))
                 ELSE Call(w, "getElementExtendedContent", <<surfaceElementId>>)
            ELSE getSurfaceContent(w, c, getSurfaceId_(c, surfaceElementId, w.surf[key]),
                                   surfaceElementId)

\* checkHasElementTag_ on a content that is a string or an element
checkHasElementTag_(w, content, id) ==
    IF isString(content)
    THEN Contains(StrChars(content.s), <<" ", "i", "d", "=", "\"">> \o id \o <<"\"">>)
    ELSE w.heap[content.n].id = id

wrapContentIfNecessary(w, content, id, tag) ==
    IF ~Ok(w) THEN w
    ELSE IF ~isDefAndNotNull(content) THEN Throw(w, "TypeError")
    ELSE IF checkHasElementTag_(w, content, id) THEN Ret(w, content)
    ELSE Ret(w, Str(<<Open(tag, id)>> \o AsTokens(content) \o <<Close(tag)>>))

\* getComponentHtml
getComponentHtml(w, c, content) == wrapContentIfNecessary(w, content, c, Class(w, c).tag)

\* getNonComponentSurfaceHtml
getNonComponentSurfaceHtml(w, c, surfaceElementId, content) ==
    wrapContentIfNecessary(w, content, surfaceElementId, Class(w, c).surfaceTag)

getSurfaceHtml(w, c, surfaceElementId, content) ==
    IF ~Ok(w) THEN w
    ELSE LET key == getSurface(w, c, surfaceElementId)
         IN IF key = NoId THEN Throw(w, "TypeError")
            ELSE IF w.surf[key].componentName # ""
            THEN IF surfaceElementId \notin w.reg THEN Throw(w, "TypeError")
                 ELSE getComponentHtml(w, surfaceElementId, content)
            ELSE getNonComponentSurfaceHtml(w, c, surfaceElementId, content)

\* buildPlaceholder(surfaceElementId) without data
buildPlaceholder(surfaceElementId) == <<Ph(surfaceElementId)>>

----------------------------------------------------------------------------
(* Component: placeholder expansion.                                       *)

generateSurfaceElementId_(w, c, optParentSurfaceElementId) ==
    LET parentElementId == IF optParentSurfaceElementId # NoId
                           THEN optParentSurfaceElementId ELSE c
        count == (IF parentElementId \in DOMAIN w.comp[c].genCount
                  THEN w.comp[c].genCount[parentElementId] ELSE 0) + 1
    IN Ret([w EXCEPT !.comp[c].genCount =
                        [k \in DOMAIN @ \cup {parentElementId} |->
                            IF k = parentElementId THEN count ELSE @[k]]],
           Str(parentElementId \o <<"-", "s">> \o Decimal(count)))

\* createPlaceholderSurface_; the surface element id is returned in ret.s
createPlaceholderSurface_(w, c, optSurfaceElementId, optParentSurfaceElementId) ==
    IF ~Ok(w) THEN w
    ELSE LET w1 == IF optSurfaceElementId = NoId
                   THEN generateSurfaceElementId_(w, c, optParentSurfaceElementId)
                   ELSE Ret(w, Str(optSurfaceElementId))
             surfaceElementId == w1.ret.s
             w2 == IF getSurface(w1, c, surfaceElementId) = NoId
                   THEN Call(w1, "addSurface",
                             <<c, surfaceElementId,
                               [NoCfg EXCEPT !.surfaceElementId = surfaceElementId], Empty>>)
                   ELSE w1
         IN Ret(w2, Str(surfaceElementId))

\* surface.handled = value, on the surface getSurface finds
setHandled(w, c, surfaceElementId, value) ==
    IF ~Ok(w) THEN w
    ELSE LET key == getSurface(w, c, surfaceElementId)
         IN IF key = NoId THEN Throw(w, "TypeError")
            ELSE [w EXCEPT !.surf[key].handled = value]

\* The replacer function with the entry put in front of the collected list
replaceMatchInFront(w, c, id, optSurfaceElementId) ==
    LET w1 == Call(w, "createPlaceholderSurface_", <<c, id, optSurfaceElementId>>)
    IN IF ~Ok(w1) THEN w1
       ELSE LET newId == w1.ret.s
                w3 == Call(setHandled(w1, c, newId, TRUE), "getSurfaceContent_", <<c, newId>>)
            IN IF ~Ok(w3) THEN w3
               ELSE LET surfaceContent == w3.ret
                        w4 == Call(w3, "getSurfaceHtml", <<c, newId, surfaceContent>>)
                    IN IF ~Ok(w4) THEN w4
                       ELSE LET w5 == Call(w4, "replaceSurfacePlaceholders_",
                                           <<c, w4.ret, newId>>)
                                expandedHtml == w5.ret
                            IN IF ~Ok(w5) THEN w5
                               ELSE Ret(Log([w5 EXCEPT !.comp[c].collected =
                                                <<[cacheContent |-> surfaceContent,
                                                   content |-> expandedHtml,
                                                   surfaceElementId |-> newId]>> \o @],
                                            "collect", c, newId),
                                        expandedHtml)

\* The replacer function of replaceSurfacePlaceholders_, for one match
replaceMatch(w, c, id, optSurfaceElementId) ==
    LET w1 == Call(w, "createPlaceholderSurface_", <<c, id, optSurfaceElementId>>)
    IN IF ~Ok(w1) THEN w1
       ELSE LET newId == w1.ret.s
                w3 == Call(setHandled(w1, c, newId, TRUE), "getSurfaceContent_", <<c, newId>>)
            IN IF ~Ok(w3) THEN w3
               ELSE LET surfaceContent == w3.ret
                        w4 == Call(w3, "getSurfaceHtml", <<c, newId, surfaceContent>>)
                    IN IF ~Ok(w4) THEN w4
                       ELSE LET w5 == Call(w4, "replaceSurfacePlaceholders_",
                                           <<c, w4.ret, newId>>)
                                expandedHtml == w5.ret
                            IN IF ~Ok(w5) THEN w5
                               ELSE Ret(Log([w5 EXCEPT !.comp[c].collected =
                                                Append(@, [cacheContent |-> surfaceContent,
                                                           content |-> expandedHtml,
                                                           surfaceElementId |-> newId])],
                                            "collect", c, newId),
                                        expandedHtml)

\* content.replace(Component.SURFACE_REGEX, fn): the matches from left to
\* right, each replaced by what the replacer returns
RECURSIVE replaceLoop(_, _, _, _, _)
replaceLoop(w, c, toks, optSurfaceElementId, acc) ==
    LET matches == {i \in DOMAIN toks : toks[i].k = "ph"}
        at == CHOOSE i \in matches : \A j \in matches : i <= j
        w1 == replaceMatch(w, c, toks[at].v, optSurfaceElementId)
    IN IF ~Ok(w) THEN w
       ELSE IF matches = {} THEN Ret(w, Str(acc \o toks))
       ELSE IF ~Ok(w1) THEN w1
       ELSE replaceLoop(w1, c, SubSeq(toks, at + 1, Len(toks)), optSurfaceElementId, acc \o SubSeq(toks, 1, at - 1) \o AsTokens(w1.ret))

\* replaceSurfacePlaceholders_ that returns strings only
replaceInStrings(w, c, content, optSurfaceElementId) ==
    IF ~Ok(w) THEN w
    ELSE IF ~isString(content) THEN Ret(w, Str(<<>>))
    ELSE replaceLoop(w, c, content.s, optSurfaceElementId, <<>>)

replaceSurfacePlaceholders_(w, c, content, optSurfaceElementId) ==
    IF ~Ok(w) THEN w
    ELSE IF ~isString(content) THEN Ret(w, content)
    ELSE replaceLoop(w, c, content.s, optSurfaceElementId, <<>>)

getElementExtendedContent(w, c) ==
    LET w1 == Call(w, "getElementContent_", <<c>>)
    IN IF ~Ok(w1) THEN w1 ELSE Call(w1, "replaceSurfacePlaceholders_", <<c, w1.ret, NoId>>)

----------------------------------------------------------------------------
(* Component: the surface cache and surface rendering.                     *)

\* html.compress: white space between tags carries no content
compress(s) == SelectSeq(s, LAMBDA t : ~(t.k = "txt" /\ \A i \in DOMAIN t.v : t.v[i] = " "))

\* convertHtmlToBrowserFormat_: the html as the browser renders it in a
\* temporary element
convertHtmlToBrowserFormat_(htmlString) ==
    LET element == createElement(Empty, DIV)
        f == buildFragment(element.heap, htmlString)
    IN innerHTML(moveChildren(f.heap, f.n, element.n), element.n)

computeSurfaceCacheState_(w, value) ==
    IF isString(value)
    THEN hashCode(IF w.env.attrOrderChange THEN convertHtmlToBrowserFormat_(value.s)
                  ELSE value.s)
    ELSE NOT_CACHEABLE

\* compareCacheStates_ without the tests for the sentinels
compareEqualStates(currentCacheState, previousCacheState) ==
    currentCacheState = previousCacheState

compareCacheStates_(currentCacheState, previousCacheState) ==
    /\ currentCacheState # NOT_INITIALIZED
    /\ currentCacheState # NOT_CACHEABLE
    /\ currentCacheState = previousCacheState

\* cacheSurfaceContent that takes no content for cacheable
cacheNothing(w, c, surfaceElementId, content) ==
    IF ~Ok(w) THEN w
    ELSE LET key == getSurface(w, c, surfaceElementId)
         IN IF key = NoId THEN Throw(w, "TypeError")
            ELSE [w EXCEPT !.surf[key].cacheState = NOT_CACHEABLE]

cacheSurfaceContent(w, c, surfaceElementId, content) ==
    IF ~Ok(w) THEN w
    ELSE LET cacheState == computeSurfaceCacheState_(w, content)
             key == getSurface(w, c, surfaceElementId)
         IN IF key = NoId THEN Throw(w, "TypeError")
            ELSE [w EXCEPT !.surf[key].cacheState = cacheState]

\* eventsCollector_.attachListeners(content, group): the inline listeners
\* of the group are attached and count as confirmed by this pass
attachListeners(w, c, content, group) ==
    IF ~Ok(w) \/ ~isString(content) THEN w
    ELSE Log([w EXCEPT !.comp[c].listeners = @ \cup {group},
                       !.comp[c].reconfirmed = @ \cup {group}],
             "listen", c, group)

\* eventsCollector_.detachUnusedListeners()
detachUnusedListeners(w, c) ==
    IF ~Ok(w) THEN w
    ELSE [w EXCEPT !.comp[c].listeners = @ \cap w.comp[c].reconfirmed,
                   !.comp[c].reconfirmed = {}]

\* eventsCollector_.detachAllListeners()
detachAllListeners(w, c) ==
    IF ~Ok(w) THEN w
    ELSE Log([w EXCEPT !.comp[c].listeners = {}, !.comp[c].reconfirmed = {}],
             "detachAll", c, NoId)

\* dom.append(parent, child) for a string or an element
domAppend(h, parent, child) ==
    IF isString(child)
    THEN LET f == buildFragment(h, child.s) IN moveChildren(f.heap, f.n, parent)
    ELSE appendChild(h, parent, child.n)

replaceSurfaceContent_(w, c, surfaceElementId, content) ==
    LET w1 == Call(w, "getSurfaceElement", <<c, surfaceElementId>>)
    IN IF ~Ok(w1) THEN w1
       ELSE LET el == w1.ret.n
                w2 == Call(w1, "replaceSurfacePlaceholders_", <<c, content, surfaceElementId>>)
            IN IF ~Ok(w2) THEN w2
               ELSE LET expanded == w2.ret
                        key == getSurface(w2, c, surfaceElementId)
                        f == buildFragment(w2.heap, expanded.s)
                        own == IF isString(expanded) THEN firstChild(f.heap, f.n)
                               ELSE [heap |-> w2.heap, n |-> expanded.n]
                    IN IF ~isDefAndNotNull(expanded) \/ el = 0 THEN Throw(w2, "TypeError")
                       ELSE IF checkHasElementTag_(w2, expanded, surfaceElementId)
                       THEN IF key = NoId THEN Throw(w2, "TypeError")
                            ELSE Log([w2 EXCEPT !.surf[key].element = own.n,
                                                !.heap = domReplace(own.heap, el, own.n)],
                                     "dom", c, surfaceElementId)
                       ELSE Log([w2 EXCEPT !.heap = domAppend(removeChildren(@, el), el,
                                                              expanded)],
                                "dom", c, surfaceElementId)

\* One match of the replace in replaceSurfacePlaceholders_, up to the call it
\* makes for the content found: the surface is created and marked, its
\* content fetched and wrapped.  The result carries the surface, the content
\* to cache and the html whose expansion follows
replaceMatchStart(w, c, id, surfaceElementId) ==
    LET found ==
          UNION {UNION {{IF Ok(w4)
                         THEN Ret(w4, [t |-> "match", s |-> w1.ret.s, n |-> 0,
                                       cacheContent |-> w3.ret, html |-> w4.ret])
                         ELSE w4
                           : w4 \in {Call(w3, "getSurfaceHtml", <<c, w1.ret.s, w3.ret>>)}}
                           : w3 \in {Call(setHandled(w1, c, w1.ret.s, TRUE),
                                          "getSurfaceContent_", <<c, w1.ret.s>>)}}
                           : w1 \in {Call(w, "createPlaceholderSurface_",
                                          <<c, id, surfaceElementId>>)}}
    IN CHOOSE m \in found : TRUE

\* The replace loop of renderPlaceholderSurfaceContents_
RECURSIVE renderPlaceholdersLoop(_, _, _, _)
renderPlaceholdersLoop(w, c, toks, surfaceElementId) ==
    LET matches == {i \in DOMAIN toks : toks[i].k = "ph"}
        at == CHOOSE i \in matches : \A j \in matches : i <= j
        w1 == Call(w, "createPlaceholderSurface_", <<c, toks[at].v, surfaceElementId>>)
        w2 == Call(w1, "renderSurfaceContent", <<c, w1.ret.s, Undef, Undef>>)
    IN IF ~Ok(w) \/ matches = {} THEN w
       ELSE IF ~Ok(w1) THEN w1
       ELSE IF ~Ok(w2) THEN w2
       ELSE renderPlaceholdersLoop(w2, c, SubSeq(toks, at + 1, Len(toks)), surfaceElementId)

renderPlaceholderSurfaceContents_(w, c, content, surfaceElementId) ==
    IF ~Ok(w) THEN w
    ELSE IF ~isString(content) THEN Throw(w, "TypeError")
    ELSE renderPlaceholdersLoop(w, c, content.s, surfaceElementId)

\* The log once renderComponentSurface_ found the nested instance: the
\* surface, and whether expanded markup came with it
Entered(w, c, surfaceElementId, optContent) ==
    LET w1 == Log(w, "componentSurface", c, surfaceElementId)
    IN IF Truthy(optContent) THEN Log(w1, "markup", c, surfaceElementId) ELSE w1

\* renderComponentSurface_ that renders the nested component every time
renderComponentAnew(w, c, surfaceElementId, optContent) ==
    IF ~Ok(w) THEN w
    ELSE IF surfaceElementId \notin w.reg THEN Throw(w, "TypeError")
    ELSE Call(w, "render", <<surfaceElementId, 0, 0>>)

\* renderComponentSurface_ that always takes the render-as-subcomponent
\* path when markup is given
renderComponentNeverDecorating(w, c, surfaceElementId, optContent) ==
    IF ~Ok(w) THEN w
    ELSE IF surfaceElementId \notin w.reg THEN Throw(w, "TypeError")
    ELSE IF w.comp[surfaceElementId].wasRendered
    THEN LET key == getSurface(w, c, surfaceElementId)
         IN IF key = NoId THEN Throw(w, "TypeError")
            ELSE Call(Entered(w, c, surfaceElementId, optContent), "updateComponent",
                      <<surfaceElementId, w.surf[key].componentData>>)
    ELSE IF Truthy(optContent)
    THEN LET element == w.comp[surfaceElementId].element
             w0 == Entered(w, c, surfaceElementId, optContent)
             w1 == IF isEmpty(w0.heap, element)
                   THEN [w0 EXCEPT !.heap = domAppend(@, element, optContent)]
                   ELSE w0
         IN Call(w1, "renderAsSubComponent", <<surfaceElementId>>)
    ELSE Call(Entered(w, c, surfaceElementId, optContent), "render", <<surfaceElementId, 0, 0>>)

renderComponentSurface_(w, c, surfaceElementId, optContent) ==
    IF ~Ok(w) THEN w
    ELSE IF surfaceElementId \notin w.reg THEN Throw(w, "TypeError")
    ELSE IF w.comp[surfaceElementId].wasRendered
    THEN LET key == getSurface(w, c, surfaceElementId)
         IN IF key = NoId THEN Throw(w, "TypeError")
            ELSE Call(Entered(w, c, surfaceElementId, optContent), "updateComponent",
                      <<surfaceElementId, w.surf[key].componentData>>)
    ELSE IF Truthy(optContent)
    THEN LET element == w.comp[surfaceElementId].element
             w0 == Entered(w, c, surfaceElementId, optContent)
             w1 == IF isEmpty(w0.heap, element)
                   THEN [w0 EXCEPT !.heap = domAppend(@, element, optContent)]
                   ELSE w0
         IN IF w.comp[c].decorating
            THEN Call(w1, "decorateAsSubComponent", <<surfaceElementId>>)
            ELSE Call(w1, "renderAsSubComponent", <<surfaceElementId>>)
    ELSE Call(Entered(w, c, surfaceElementId, optContent), "render", <<surfaceElementId, 0, 0>>)

\* renderSurfaceContent that attaches no listeners on a cache hit
renderResolvedQuietly(w, c, key, surfaceElementId, content, optCacheContent) ==
    LET decorating == w.comp[c].decorating
        cacheContent == IF Truthy(optCacheContent) THEN optCacheContent ELSE content
        w1 == Call(w, "getSurfaceElement", <<c, surfaceElementId>>)
        w2 == IF ~decorating THEN w
              ELSE IF ~Ok(w1) THEN w1
              ELSE IF w1.ret.n = 0 THEN Throw(w1, "TypeError")
              ELSE Call(w1, "cacheSurfaceContent",
                        <<c, surfaceElementId, Str(compress(outerHTML(w1.heap, w1.ret.n)))>>)
    IN IF ~Ok(w2) THEN w2
       ELSE LET previousCacheState == w2.surf[key].cacheState
                w3 == Call(w2, "cacheSurfaceContent",
                           <<c, surfaceElementId, IF decorating THEN content ELSE cacheContent>>)
            IN IF ~Ok(w3) THEN w3
               ELSE LET cacheHit == compareCacheStates_(w3.surf[key].cacheState,
                                                        previousCacheState)
                        w4 == IF decorating
                              THEN Call(w3, "cacheSurfaceContent",
                                        <<c, surfaceElementId, cacheContent>>)
                              ELSE w3
                    IN IF ~Ok(w4) THEN w4
                       ELSE IF cacheHit
                       THEN Call(Log(w4, "hit", c, surfaceElementId),
                                 "renderPlaceholderSurfaceContents_",
                                 <<c, content, surfaceElementId>>)
                       ELSE Call(attachListeners(Log(w4, "miss", c, surfaceElementId), c,
                                                 cacheContent, surfaceElementId),
                                 "replaceSurfaceContent_", <<c, surfaceElementId, content>>)

\* renderSurfaceContent, after the content was resolved
renderResolvedContent(w, c, key, surfaceElementId, content, optCacheContent) ==
    LET decorating == w.comp[c].decorating
        cacheContent == IF Truthy(optCacheContent) THEN optCacheContent ELSE content
        w1 == Call(w, "getSurfaceElement", <<c, surfaceElementId>>)
        w2 == IF ~decorating THEN w
              ELSE IF ~Ok(w1) THEN w1
              ELSE IF w1.ret.n = 0 THEN Throw(w1, "TypeError")
              ELSE Call(w1, "cacheSurfaceContent",
                        <<c, surfaceElementId, Str(compress(outerHTML(w1.heap, w1.ret.n)))>>)
    IN IF ~Ok(w2) THEN w2
       ELSE LET previousCacheState == w2.surf[key].cacheState
                w3 == Call(w2, "cacheSurfaceContent",
                           <<c, surfaceElementId, IF decorating THEN content ELSE cacheContent>>)
            IN IF ~Ok(w3) THEN w3
               ELSE LET cacheHit == compareCacheStates_(w3.surf[key].cacheState,
                                                        previousCacheState)
                        w4 == IF decorating
                              THEN Call(w3, "cacheSurfaceContent",
                                        <<c, surfaceElementId, cacheContent>>)
                              ELSE w3
                    IN IF ~Ok(w4) THEN w4
                       ELSE IF cacheHit
                       THEN Call(IF decorating
                                 THEN attachListeners(Log(w4, "hit", c, surfaceElementId), c,
                                                      cacheContent, surfaceElementId)
                                 ELSE Log(w4, "hit", c, surfaceElementId),
                                 "renderPlaceholderSurfaceContents_",
                                 <<c, content, surfaceElementId>>)
                       ELSE Call(attachListeners(Log(w4, "miss", c, surfaceElementId), c,
                                                 cacheContent, surfaceElementId),
                                 "replaceSurfaceContent_", <<c, surfaceElementId, content>>)

\* renderSurfaceContent that renders content that is undefined as well
renderUndefinedContent(w, c, surfaceElementId, optContent, optCacheContent) ==
    IF ~Ok(w) THEN w
    ELSE LET key == getSurface(w, c, surfaceElementId)
         IN IF key = NoId THEN Throw(w, "TypeError")
            ELSE IF w.surf[key].componentName # ""
            THEN Call(w, "renderComponentSurface_", <<c, surfaceElementId, optContent>>)
            ELSE LET w1 == IF Truthy(optContent) THEN Ret(w, optContent)
                           ELSE Call(w, "getSurfaceContent_", <<c, surfaceElementId>>)
                 IN IF Ok(w1)
                    THEN renderResolvedContent(w1, c, key, surfaceElementId, w1.ret, optCacheContent)
                    ELSE w1

renderSurfaceContent(w, c, surfaceElementId, optContent, optCacheContent) ==
    IF ~Ok(w) THEN w
    ELSE LET key == getSurface(w, c, surfaceElementId)
         IN IF key = NoId THEN Throw(w, "TypeError")
            ELSE IF w.surf[key].componentName # ""
            THEN Call(w, "renderComponentSurface_", <<c, surfaceElementId, optContent>>)
            ELSE LET w1 == IF Truthy(optContent) THEN Ret(w, optContent)
                           ELSE Call(w, "getSurfaceContent_", <<c, surfaceElementId>>)
                 IN IF Ok(w1) /\ isDefAndNotNull(w1.ret)
                    THEN renderResolvedContent(w1, c, key, surfaceElementId, w1.ret, optCacheContent)
                    ELSE w1

RECURSIVE renderSurfacesLoop(_, _, _)
renderSurfacesLoop(w, c, surfaces) ==
    IF ~Ok(w) \/ surfaces = <<>> THEN w
    ELSE LET key == getSurface(w, c, Head(surfaces))
             w1 == IF w.surf[key].handled THEN w
                   ELSE Call(w, "renderSurfaceContent", <<c, Head(surfaces), Undef, Undef>>)
         IN IF key = NoId THEN Throw(w, "TypeError")
            ELSE IF ~Ok(w1) THEN w1
            ELSE renderSurfacesLoop(w1, c, Tail(surfaces))

\* renderSurfacesContent_(surfaces); `surfaces` are the keys of the object
\* given, in the order for-in visits them (the keys it held when the loop
\* started)
renderSurfacesContent_(w, c, surfaces) ==
    IF ~Ok(w) THEN w
    ELSE LET w1 == renderSurfacesLoop(Log([w EXCEPT !.comp[c].genCount = Empty],
                                          "renderSurfacesContent_", c, NoId), c, surfaces)
             w2 == Call(w1, "updatePlaceholderSurfaces_", <<c>>)
         IN IF ~Ok(w1) \/ ~w1.comp[c].wasRendered THEN w1
            ELSE IF ~Ok(w2) THEN w2
            ELSE detachUnusedListeners(w2, c)

updatePlaceholderSurface_(w, c, collectedData) ==
    IF ~Ok(w) THEN w
    ELSE LET surfaceElementId == collectedData.surfaceElementId
             key == getSurface(w, c, surfaceElementId)
             isComponent == w.surf[key].componentName # ""
             w0 == Log(w, "finalize", c, surfaceElementId)
             w1 == Call(w0, "getSurfaceElement", <<c, surfaceElementId>>)
             w2 == IF isComponent
                   THEN [w1 EXCEPT !.heap = domReplace(@, findElementById_(w0, c, surfaceElementId),
                                                       w1.ret.n)]
                   ELSE w0
         IN IF key = NoId THEN Throw(w, "TypeError")
            ELSE IF ~Ok(w2) THEN w2
            ELSE IF w2.comp[c].decorating \/ isComponent
            THEN Call(w2, "renderSurfaceContent",
                      <<c, surfaceElementId, collectedData.content, collectedData.cacheContent>>)
            ELSE attachListeners(
                     Call([w2 EXCEPT !.surf[key].element = 0], "cacheSurfaceContent",
                          <<c, surfaceElementId, collectedData.cacheContent>>),
                     c, collectedData.cacheContent, surfaceElementId)

\* The loop of updatePlaceholderSurfaces_, at index i (from 1) of the list
RECURSIVE updatePlaceholderLoop(_, _, _)
updatePlaceholderLoop(w, c, i) ==
    IF ~Ok(w) \/ i < 1 THEN w
    ELSE LET w1 == Call(w, "updatePlaceholderSurface_", <<c, w.comp[c].collected[i]>>)
             w2 == setHandled(w1, c, w1.comp[c].collected[i].surfaceElementId, FALSE)
         IN IF ~Ok(w1) THEN w1
            ELSE IF ~Ok(w2) THEN w2
            ELSE updatePlaceholderLoop(w2, c, i - 1)

\* updatePlaceholderSurfaces_ walking the list from first to last
RECURSIVE updatePlaceholderLoopUp(_, _, _)
updatePlaceholderLoopUp(w, c, i) ==
    IF ~Ok(w) \/ i > Len(w.comp[c].collected) THEN w
    ELSE LET w1 == Call(w, "updatePlaceholderSurface_", <<c, w.comp[c].collected[i]>>)
             w2 == setHandled(w1, c, w1.comp[c].collected[i].surfaceElementId, FALSE)
         IN IF ~Ok(w1) THEN w1
            ELSE IF ~Ok(w2) THEN w2
            ELSE updatePlaceholderLoopUp(w2, c, i + 1)

updatePlaceholderSurfacesUp(w, c) ==
    IF ~Ok(w) THEN w
    ELSE LET w1 == updatePlaceholderLoopUp(Log(w, "updatePlaceholderSurfaces_", c, NoId), c, 1)
         IN IF Ok(w1) THEN [w1 EXCEPT !.comp[c].collected = <<>>] ELSE w1

updatePlaceholderSurfaces_(w, c) ==
    IF ~Ok(w) THEN w
    ELSE LET w1 == updatePlaceholderLoop(Log(w, "updatePlaceholderSurfaces_", c, NoId), c,
                                         Len(w.comp[c].collected))
         IN IF Ok(w1) THEN [w1 EXCEPT !.comp[c].collected = <<>>] ELSE w1

----------------------------------------------------------------------------
(* Component: attributes and the lifecycle.                                *)

RECURSIVE SeqOf(_)
SeqOf(S) == IF S = {} THEN <<>> ELSE LET x == CHOOSE y \in S : TRUE IN <<x>> \o SeqOf(S \ {x})

\* The group of the inline listeners of the element's own content
ElementGroup == <<"e">>

\* Component.ATTRS, without element and id: the attributes every component has
BaseAttrs == [a \in {"elementClasses", "visible"} |-> IF a = "visible" THEN <<"1">> ELSE <<>>]

\* fireAttrChange_: calls sync<Attr> when the component has that function
\* (syncElementClasses and syncVisible, and those of the subclass)
fireAttrChange_(w, c, attr) ==
    IF ~Ok(w) THEN w
    ELSE IF attr \in {"elementClasses", "visible"} \cup Class(w, c).sync
    THEN Log(Log(w, "fireAttrChange_", c, <<attr>>), "sync", c, <<attr>>)
    ELSE Log(w, "fireAttrChange_", c, <<attr>>)

RECURSIVE fireAttrChanges(_, _, _)
fireAttrChanges(w, c, attrNames) ==
    IF attrNames = <<>> THEN w
    ELSE fireAttrChanges(fireAttrChange_(w, c, Head(attrNames)), c, Tail(attrNames))

syncAttrs_(w, c) ==
    IF ~Ok(w) THEN w
    ELSE fireAttrChanges(Log(w, "syncAttrs_", c, NoId), c, SeqOf(DOMAIN w.comp[c].attrs))

syncAttrsFromChanges_(w, c, changes) == fireAttrChanges(w, c, changes)

\* getModifiedSurfacesFromChanges_: object.mixin.apply(null, surfaces) copies
\* the keys of every later object into the first one, which is the object
\* surfacesRenderAttrs_ holds for the first changed attribute, and returns
\* it; the keys of the result are returned in ret.s
getModifiedSurfacesFromChanges_(w, c, changes) ==
    LET sra == w.comp[c].sra
        hits == SelectSeq(changes, LAMBDA a : a \in DOMAIN sra)
        RECURSIVE mixin(_, _)
        mixin(target, rest) ==
            IF rest = <<>> THEN target ELSE mixin(Merge(target, sra[Head(rest)]), Tail(rest))
        merged == mixin(sra[hits[1]], Tail(hits))
    IN IF hits = <<>> THEN Ret(w, Str(<<>>))
       ELSE Ret([w EXCEPT !.comp[c].sra[hits[1]] = merged], Str(merged))

handleAttributesChanges_(w, c, changes) ==
    IF ~Ok(w) THEN w
    ELSE LET w1 == getModifiedSurfacesFromChanges_(w, c, changes)
             w2 == IF w.comp[c].inDocument
                   THEN Call(w1, "renderSurfacesContent_", <<c, w1.ret.s>>)
                   ELSE w
         IN IF ~Ok(w2) THEN w2 ELSE syncAttrsFromChanges_(w2, c, changes)

\* setAttrs(values) of the attribute object, and the attrsChanged event that
\* reports the attributes whose value changed
setAttrs(w, c, values) ==
    IF ~Ok(w) THEN w
    ELSE LET given == ObjFn(values)
             attrs == w.comp[c].attrs
             changed == SelectSeq(Keys(values),
                                  LAMBDA a : a \notin DOMAIN attrs \/ attrs[a] # given[a])
             new == [a \in DOMAIN attrs \cup DOMAIN given |->
                       IF a \in DOMAIN given THEN given[a] ELSE attrs[a]]
         IN IF changed = <<>> THEN w
            ELSE Call([w EXCEPT !.comp[c].attrs = new], "handleAttributesChanges_",
                      <<c, changed>>)

\* ComponentCollector.updateComponent
updateComponent(w, id, data) ==
    IF ~Ok(w) THEN w
    ELSE IF id \notin w.reg THEN Throw(w, "TypeError")
    ELSE Call(Log(w, "update", id, NoId), "setAttrs", <<id, data>>)

\* attachInlineListeners_
attachInlineListeners_(w, c) ==
    IF ~Ok(w) THEN w
    ELSE LET w1 == Call(Log(w, "attachInlineListeners_", c, NoId), "getElementContent_", <<c>>)
             w2 == attachListeners(w1, c, w1.ret, ElementGroup)
         IN IF Ok(w2) THEN [w2 EXCEPT !.comp[c].elementContent = Undef] ELSE w2

renderElement_(w, c, optParentElement, optSiblingElement) ==
    IF ~Ok(w) THEN w
    ELSE LET element == w.comp[c].element
             h1 == [w.heap EXCEPT ![element].id = c]
             parent == IF optParentElement # 0 THEN optParentElement ELSE BODY
         IN IF optSiblingElement # 0 \/ h1[element].parent = 0
            THEN IF optSiblingElement # 0 /\ h1[optSiblingElement].parent # parent
                 THEN Throw([w EXCEPT !.heap = h1], "DOMException")
                 ELSE [w EXCEPT !.heap = insertBefore(h1, parent, element, optSiblingElement)]
            ELSE [w EXCEPT !.heap = h1]

\* attach() without the check of inDocument
attachAgain(w, c, optParentElement, optSiblingElement) ==
    IF ~Ok(w) THEN w
    ELSE LET w1 == renderElement_(Log(w, "attach", c, NoId), c, optParentElement,
                                  optSiblingElement)
             w2 == [w1 EXCEPT !.comp[c].inDocument = TRUE]
             w3 == IF ~w2.comp[c].wasRendered
                   THEN Call(w2, "updatePlaceholderSurfaces_", <<c>>)
                   ELSE w2
         IN IF ~Ok(w1) THEN w1
            ELSE IF ~Ok(w3) THEN w3
            ELSE Log(w3, "attached", c, NoId)

attach(w, c, optParentElement, optSiblingElement) ==
    IF ~Ok(w) THEN w
    ELSE IF w.comp[c].inDocument THEN Log(w, "attach", c, NoId)
    ELSE LET w1 == renderElement_(Log(w, "attach", c, NoId), c, optParentElement,
                                  optSiblingElement)
             w2 == [w1 EXCEPT !.comp[c].inDocument = TRUE]
             w3 == IF ~w2.comp[c].wasRendered
                   THEN Call(w2, "updatePlaceholderSurfaces_", <<c>>)
                   ELSE w2
         IN IF ~Ok(w1) THEN w1
            ELSE IF ~Ok(w3) THEN w3
            ELSE Log(w3, "attached", c, NoId)

\* detach() that returns at once when the component is not in the document
detachIfAttached(w, c) ==
    IF ~Ok(w) \/ ~w.comp[c].inDocument THEN w
    ELSE IF w.heap[w.comp[c].element].parent = 0 THEN Throw(w, "TypeError")
    ELSE detachAllListeners(Log([w EXCEPT !.heap = Unlink(@, w.comp[c].element),
                                          !.comp[c].inDocument = FALSE],
                                "detached", c, NoId), c)

detach(w, c) ==
    IF ~Ok(w) THEN w
    ELSE LET element == w.comp[c].element
             w1 == IF ~w.comp[c].inDocument THEN w
                   ELSE IF w.heap[element].parent = 0 THEN Throw(w, "TypeError")
                   ELSE Log([w EXCEPT !.heap = Unlink(@, element),
                                      !.comp[c].inDocument = FALSE],
                            "detached", c, NoId)
         IN detachAllListeners(w1, c)

\* updateElementAttributes_: the element has no attribute but id and class
\* here; what is left is the diagnostic of a changed tag name
\* The html attribute names the loop of updateElementAttributes_ skips; id
\* is a field of its own in a node
CLASS == <<"c", "l", "a", "s", "s">>

\* element.setAttribute(name, value) for every attribute but class
RECURSIVE setAttributes(_, _, _)
setAttributes(h, element, attrs) ==
    IF attrs = <<>> THEN h
    ELSE setAttributes(IF Head(attrs).key = CLASS THEN h
                       ELSE [h EXCEPT ![element].attrs = Put(@, Head(attrs).key, Head(attrs).val)],
                       element, Tail(attrs))

\* updateElementAttributes_ that leaves the attributes alone
reportTagName(w, c, element, newElement) ==
    IF w.heap[element].tag # w.heap[newElement].tag THEN Log(w, "tagError", c, NoId) ELSE w

updateElementAttributes_(w, c, element, newElement) ==
    LET w1 == [w EXCEPT !.heap = setAttributes(@, element, w.heap[newElement].attrs)]
    IN IF w.heap[element].tag # w.heap[newElement].tag THEN Log(w1, "tagError", c, NoId) ELSE w1

\* renderContent_ for a string: the fragment f was built from it
renderFragment_(w, c, f) ==
    LET element == w.comp[c].element
        kids == f.heap[f.n].kids
        w1 == [w EXCEPT !.heap = f.heap]
    IN IF kids = <<>> THEN Throw(w1, "TypeError")
       ELSE IF kids[1].k = "node" /\ f.heap[kids[1].n].id = c
       THEN [updateElementAttributes_(w1, c, element, kids[1].n)
               EXCEPT !.heap = moveChildren(@, kids[1].n, element)]
       ELSE [w1 EXCEPT !.heap = moveChildren(@, f.n, element)]

renderContent_(w, c, content) ==
    IF ~Ok(w) THEN w
    ELSE IF isString(content) THEN renderFragment_(w, c, buildFragment(w.heap, content.s))
    ELSE IF w.heap[content.n].id = c
    THEN [updateElementAttributes_(w, c, w.comp[c].element, content.n)
            EXCEPT !.heap = moveChildren(@, content.n, w.comp[c].element)]
    ELSE [w EXCEPT !.heap = appendChild(@, w.comp[c].element, content.n)]

renderInternal(w, c) ==
    LET w1 == Call(Log(w, "renderInternal", c, NoId), "getElementExtendedContent", <<c>>)
    IN IF Ok(w1) /\ Truthy(w1.ret) THEN Call(w1, "renderContent_", <<c, w1.ret>>) ELSE w1

\* render() without the check of wasRendered
renderAgain(w, c, optParentElement, optSiblingElement) ==
    IF ~Ok(w) THEN w
    ELSE LET w1 == Call(Log(w, "render", c, NoId), "renderInternal", <<c>>)
             w2 == Call(w1, "renderSurfacesContent_", <<c, Keys(w1.comp[c].surfaceIds)>>)
             w3 == Call(w2, "attachInlineListeners_", <<c>>)
             w5 == Call(syncAttrs_(w3, c), "attach", <<c, optParentElement, optSiblingElement>>)
         IN IF ~Ok(w1) THEN w1
            ELSE IF ~Ok(w2) THEN w2
            ELSE IF ~Ok(w3) THEN w3
            ELSE IF ~Ok(w5) THEN w5
            ELSE [w5 EXCEPT !.comp[c].wasRendered = TRUE]

\* render that synchronizes the attributes before it attaches the inline
\* listeners
renderSyncFirst(w, c, optParentElement, optSiblingElement) ==
    IF ~Ok(w) THEN w
    ELSE IF w.comp[c].wasRendered THEN Throw(Log(w, "render", c, NoId), "AlreadyRendered")
    ELSE LET w1 == Call(Log(w, "render", c, NoId), "renderInternal", <<c>>)
             w2 == Call(w1, "renderSurfacesContent_", <<c, Keys(w1.comp[c].surfaceIds)>>)
             w3 == syncAttrs_(w2, c)
             w5 == Call(Call(w3, "attachInlineListeners_", <<c>>), "attach",
                        <<c, optParentElement, optSiblingElement>>)
         IN IF ~Ok(w1) THEN w1
            ELSE IF ~Ok(w2) THEN w2
            ELSE IF ~Ok(w3) THEN w3
            ELSE IF ~Ok(w5) THEN w5
            ELSE [w5 EXCEPT !.comp[c].wasRendered = TRUE]

render(w, c, optParentElement, optSiblingElement) ==
    IF ~Ok(w) THEN w
    ELSE IF w.comp[c].wasRendered THEN Throw(Log(w, "render", c, NoId), "AlreadyRendered")
    ELSE LET w1 == Call(Log(w, "render", c, NoId), "renderInternal", <<c>>)
             w2 == Call(w1, "renderSurfacesContent_", <<c, Keys(w1.comp[c].surfaceIds)>>)
             w3 == Call(w2, "attachInlineListeners_", <<c>>)
             w5 == Call(syncAttrs_(w3, c), "attach", <<c, optParentElement, optSiblingElement>>)
         IN IF ~Ok(w1) THEN w1
            ELSE IF ~Ok(w2) THEN w2
            ELSE IF ~Ok(w3) THEN w3
            ELSE IF ~Ok(w5) THEN w5
            ELSE [w5 EXCEPT !.comp[c].wasRendered = TRUE]

renderAsSubComponent(w, c) ==
    IF ~Ok(w) THEN w
    ELSE LET w1 == Call(Log(w, "renderAsSubComponent", c, NoId), "attachInlineListeners_", <<c>>)
             w2 == Call(syncAttrs_(w1, c), "attach", <<c, 0, 0>>)
         IN IF ~Ok(w1) THEN w1
            ELSE IF ~Ok(w2) THEN w2
            ELSE [w2 EXCEPT !.comp[c].wasRendered = TRUE]

decorateAsSubComponent(w, c) ==
    IF ~Ok(w) THEN w
    ELSE LET w1 == Call(Log([w EXCEPT !.comp[c].decorating = TRUE],
                                "decorateAsSubComponent", c, NoId),
                            "renderAsSubComponent", <<c>>)
         IN IF Ok(w1) THEN [w1 EXCEPT !.comp[c].decorating = FALSE] ELSE w1

decorate(w, c) ==
    IF ~Ok(w) THEN w
    ELSE IF w.comp[c].inDocument THEN Throw(w, "AlreadyRendered")
    ELSE LET w0 == Call([w EXCEPT !.comp[c].decorating = TRUE], "getElementContent_", <<c>>)
             w1 == Call(w0, "replaceSurfacePlaceholders_", <<c, w0.ret, NoId>>)
             w2 == Call(w1, "renderSurfacesContent_", <<c, Keys(w1.comp[c].surfaceIds)>>)
             w3 == Call(w2, "attachInlineListeners_", <<c>>)
             w5 == Call(syncAttrs_(w3, c), "attach", <<c, 0, 0>>)
         IN IF ~Ok(w0) THEN w0
            ELSE IF ~Ok(w1) THEN w1
            ELSE IF ~Ok(w2) THEN w2
            ELSE IF ~Ok(w3) THEN w3
            ELSE IF ~Ok(w5) THEN w5
            ELSE [w5 EXCEPT !.comp[c].decorating = FALSE, !.comp[c].wasRendered = TRUE]

----------------------------------------------------------------------------
(* Component: removing surfaces and disposal.                              *)

\* removeSurface: the record leaves the registry, and surfaceIds_ keeps the
\* key with the value false
removeSurface(w, c, surfaceId) ==
    LET w1 == Call(w, "getSurfaceElement", <<c, surfaceId>>)
    IN IF ~Ok(w1) THEN w1
       ELSE LET el == w1.ret.n
                w2 == IF el # 0 /\ w1.heap[el].parent # 0
                      THEN [w1 EXCEPT !.heap = Unlink(@, el)]
                      ELSE w1
                key == getSurface(w2, c, surfaceId)
                surfaceElementId ==
                    getSurfaceElementId_(c, surfaceId, IF key = NoId THEN NoCfg ELSE w2.surf[key])
            IN Log([collectorRemoveSurface(w2, surfaceElementId)
                      EXCEPT !.comp[c].surfaceIds = Put(@, surfaceElementId, FALSE)],
                   "removeSurface", c, surfaceElementId)

\* The loop of getSurfaces over Object.keys(surfaceIds_); the local ids
\* gathered so far are in acc
RECURSIVE getSurfacesLoop(_, _, _, _)
getSurfacesLoop(w, c, ids, acc) ==
    IF ids = <<>> THEN Ret(w, [t |-> "obj", s |-> acc, n |-> 0])
    ELSE IF Head(ids) \notin DOMAIN w.surf THEN Throw(w, "TypeError")
    ELSE getSurfacesLoop(w, c, Tail(ids),
                         Merge(acc, <<getSurfaceId_(c, Head(ids), w.surf[Head(ids)])>>))

\* getSurfaces: the local ids of the object returned are in ret.s
getSurfaces(w, c) ==
    IF ~Ok(w) THEN w ELSE getSurfacesLoop(w, c, Keys(w.comp[c].surfaceIds), <<>>)

\* ComponentCollector.removeComponent: unregisters, does not dispose
removeComponent(w, id) ==
    IF ~Ok(w) THEN w ELSE Log([w EXCEPT !.reg = @ \ {id}], "removeComponent", id, NoId)

RECURSIVE removeSurfaces(_, _, _)
removeSurfaces(w, c, ids) ==
    IF ~Ok(w) \/ ids = <<>> THEN w
    ELSE removeSurfaces(Call(w, "removeSurface", <<c, Head(ids)>>), c, Tail(ids))

\* The loop of disposeSubComponents_ over Object.keys(this.components)
RECURSIVE disposeSubComponentsLoop(_, _)
disposeSubComponentsLoop(w, ids) ==
    IF ~Ok(w) \/ ids = <<>> THEN w
    ELSE disposeSubComponentsLoop(
             IF w.comp[Head(ids)].disposed THEN w
             ELSE Call(removeComponent(w, Head(ids)), "dispose", <<Head(ids)>>),
             Tail(ids))

\* disposeSubComponents_ that leaves the nested components in the registry
RECURSIVE disposeRegisteredLoop(_, _)
disposeRegisteredLoop(w, ids) ==
    IF ~Ok(w) \/ ids = <<>> THEN w
    ELSE disposeRegisteredLoop(Call(w, "dispose", <<Head(ids)>>), Tail(ids))

disposeRegistered(w, c) ==
    LET w1 == disposeRegisteredLoop(w, w.comp[c].components)
    IN IF ~Ok(w1) THEN w1 ELSE [w1 EXCEPT !.comp[c].components = <<>>]

disposeSubComponents_(w, c) ==
    LET w1 == disposeSubComponentsLoop(w, w.comp[c].components)
    IN IF ~Ok(w1) THEN w1 ELSE [w1 EXCEPT !.comp[c].components = <<>>]

disposeInternal(w, c) ==
    LET w1 == Call(w, "detach", <<c>>)
        w2 == Call(w1, "disposeSubComponents_", <<c>>)
        w3 == removeSurfaces([w2 EXCEPT !.comp[c].genCount = Empty, !.comp[c].sra = Empty],
                             c, Keys(w2.comp[c].surfaceIds))
    IN IF ~Ok(w1) THEN w1
       ELSE IF ~Ok(w2) THEN w2
       ELSE IF ~Ok(w3) THEN w3
       ELSE [w3 EXCEPT !.comp[c].surfaceIds = <<>>]

\* dispose() of the disposable base: disposeInternal() once, then the
\* instance counts as disposed
dispose(w, c) ==
    IF ~Ok(w) \/ w.comp[c].disposed THEN w
    ELSE LET w1 == Call(w, "disposeInternal", <<c>>)
         IN IF ~Ok(w1) THEN w1
            ELSE Log([w1 EXCEPT !.comp[c].disposed = TRUE], "dispose", c, NoId)

----------------------------------------------------------------------------
(* A method call: the method named f, called in the world w with the       *)
(* arguments a.                                                            *)

Call(w, f, a) ==
    IF ~Ok(w) THEN w
    ELSE
    CASE f = "addSurface" -> addSurface(w, a[1], a[2], a[3], a[4])
      [] f = "addSurfaces" -> addSurfaces(w, a[1], a[2], a[3])
      [] f = "Construct" -> Construct(w, a[1], a[2], a[3], a[4])
      [] f = "createComponent" -> createComponent(w, a[1], a[2], a[3])
      [] f = "createSubComponent_" -> createSubComponent_(w, a[1], a[2], a[3])
      [] f = "cacheSurfaceRenderAttrs_" -> cacheSurfaceRenderAttrs_(w, a[1], a[2], a[3])
      [] f = "getSurfaceElement" -> getSurfaceElement(w, a[1], a[2])
      [] f = "Instantiate" -> Instantiate(w, a[1], a[2])
      [] f = "getElementContent_" -> getElementContent_(w, a[1])
      [] f = "getSurfaceContent_" -> getSurfaceContent_(w, a[1], a[2])
      [] f = "getSurfaceHtml" -> getSurfaceHtml(w, a[1], a[2], a[3])
      [] f = "createPlaceholderSurface_" -> createPlaceholderSurface_(w, a[1], a[2], a[3])
      [] f = "replaceMatchStart" -> replaceMatchStart(w, a[1], a[2], a[3])
      [] f = "replaceSurfacePlaceholders_" -> replaceSurfacePlaceholders_(w, a[1], a[2], a[3])
      [] f = "getElementExtendedContent" -> getElementExtendedContent(w, a[1])
      [] f = "cacheSurfaceContent" -> cacheSurfaceContent(w, a[1], a[2], a[3])
      [] f = "replaceSurfaceContent_" -> replaceSurfaceContent_(w, a[1], a[2], a[3])
      [] f = "renderPlaceholderSurfaceContents_" -> renderPlaceholderSurfaceContents_(w, a[1], a[2], a[3])
      [] f = "renderComponentSurface_" -> renderComponentSurface_(w, a[1], a[2], a[3])
      [] f = "renderSurfaceContent" -> renderSurfaceContent(w, a[1], a[2], a[3], a[4])
      [] f = "renderSurfacesContent_" -> renderSurfacesContent_(w, a[1], a[2])
      [] f = "updatePlaceholderSurface_" -> updatePlaceholderSurface_(w, a[1], a[2])
      [] f = "updatePlaceholderSurfaces_" -> updatePlaceholderSurfaces_(w, a[1])
      [] f = "handleAttributesChanges_" -> handleAttributesChanges_(w, a[1], a[2])
      [] f = "setAttrs" -> setAttrs(w, a[1], a[2])
      [] f = "updateComponent" -> updateComponent(w, a[1], a[2])
      [] f = "attachInlineListeners_" -> attachInlineListeners_(w, a[1])
      [] f = "attach" -> attach(w, a[1], a[2], a[3])
      [] f = "detach" -> detach(w, a[1])
      [] f = "renderContent_" -> renderContent_(w, a[1], a[2])
      [] f = "renderInternal" -> renderInternal(w, a[1])
      [] f = "render" -> render(w, a[1], a[2], a[3])
      [] f = "renderAsSubComponent" -> renderAsSubComponent(w, a[1])
      [] f = "decorateAsSubComponent" -> decorateAsSubComponent(w, a[1])
      [] f = "decorate" -> decorate(w, a[1])
      [] f = "removeSurface" -> removeSurface(w, a[1], a[2])
      [] f = "getSurfaces" -> getSurfaces(w, a[1])
      [] f = "disposeSubComponents_" -> disposeSubComponents_(w, a[1])
      [] f = "disposeInternal" -> disposeInternal(w, a[1])
      [] f = "dispose" -> dispose(w, a[1])

----------------------------------------------------------------------------
(* The environment: the component classes an application defines (root     *)
(* content, static SURFACES, content functions, attributes) and the host's *)
(* attribute-order capability.  Init picks one.                            *)

C == <<"c">>
W == <<"w">>
A == <<"a">>
B == <<"b">>
K == <<"k">>
CA == <<"c", "-", "a">>
CB == <<"c", "-", "b">>
CK == <<"c", "-", "k">>
WA == <<"w", "-", "a">>

X == <<"x">>
Y == <<"y">>
Z == <<"z">>

Cfg(renderAttrs) == [NoCfg EXCEPT !.renderAttrs = renderAttrs]
Entry(key, val) == [key |-> key, val |-> val]

\* A class with div elements and the attributes title and note
ClassOf(root, surfaces, content) ==
    [tag |-> DIV, surfaceTag |-> DIV, root |-> root, surfaces |-> surfaces,
     content |-> content,
     attrs |-> [a \in DOMAIN BaseAttrs \cup {"title", "note"} |->
                  IF a \in DOMAIN BaseAttrs THEN BaseAttrs[a] ELSE X],
     sync |-> {"title"}]

Widget ==
    ClassOf(Str(<<Txt(<<"H", "i">>), Ph(WA)>>),
            <<Entry(A, Cfg(<<"title">>))>>,
            (A :> Str(<<AttrTok("title")>>)))

\* c-a holds c-b, which holds c-k: placeholders inside surface content
Nested ==
    ClassOf(Str(<<Open(DIV, NoId), Ph(CA), Close(DIV)>>),
            <<Entry(A, Cfg(<<"title">>))>>,
            (A :> Str(<<AttrTok("title"), Ph(CB)>>)) @@ (B :> Str(<<Ph(CK), Txt(Y)>>))
            @@ (K :> Str(<<Txt(Z)>>)))

\* Two sibling placeholders, the second one anonymous with an anonymous
\* placeholder of its own
Siblings ==
    ClassOf(Str(<<Ph(CA), Ph(NoId)>>),
            <<Entry(A, Cfg(<<"title">>))>>,
            (A :> Str(<<AttrTok("title")>>))
            @@ (<<"s", "1">> :> Str(<<Txt(Y), Ph(NoId)>>))
            @@ (<<"s", "1", "-", "s", "1">> :> Str(<<AttrTok("note")>>)))

\* Registered surfaces that no placeholder mentions; b's content is an
\* element, k has no content
Plain ==
    ClassOf(Undef,
            <<Entry(A, Cfg(<<"title">>)), Entry(B, Cfg(<<"note">>)), Entry(K, NoCfg)>>,
            (A :> Str(<<Txt(Z), AttrTok("title")>>))
            @@ (B :> [t |-> "el", s |-> <<Open(SPAN, NoId), AttrTok("note"), Close(SPAN)>>, n |-> 0]))

\* A surface backed by a nested Widget, and a plain surface after it
Composite ==
    ClassOf(Str(<<Open(DIV, C), Ph(W), Ph(CA), Close(DIV)>>),
            <<Entry(W, [NoCfg EXCEPT !.componentName = "Widget",
                                     !.componentData = <<Entry("title", Y)>>]),
              Entry(A, Cfg(<<"title">>))>>,
            (A :> Str(<<AttrTok("title")>>)))

\* The placeholder names the surface by its local id
LocalId ==
    ClassOf(Str(<<Open(DIV, NoId), Ph(A), Close(DIV)>>),
            <<Entry(A, Cfg(<<"title">>))>>,
            (A :> Str(<<Txt(<<"H", "i">>)>>)))

DATA == <<"d", "a", "t", "a">>

\* The root content carries the component id on a span with a class and a
\* data attribute, while the component element is a div
Retagged ==
    ClassOf(Str(<<OpenWith(SPAN, C, <<Entry(CLASS, X), Entry(DATA, Y)>>), Txt(Z), Ph(CA),
                  Close(SPAN)>>),
            <<Entry(A, Cfg(<<"title">>))>>,
            (A :> Str(<<AttrTok("title")>>)))

MainClasses == <<Nested, Siblings, Plain, Composite, LocalId, Retagged>>

\* Markup the server rendered for component c, for decorate()
Prerendered ==
    <<Open(DIV, C), Open(DIV, NoId), Open(DIV, CA), Txt(X), Open(DIV, CB),
      Open(DIV, CK), Txt(Z), Close(DIV), Txt(Y), Close(DIV), Close(DIV), Close(DIV),
      Close(DIV)>>

EnvOf(main, attrOrderChange, prerendered) ==
    [cls |-> ("Main" :> main) @@ ("Widget" :> Widget),
     attrOrderChange |-> attrOrderChange, prerendered |-> prerendered]

\* Every class on an empty page; the nested one also on the page the server
\* rendered, with and without a browser that reorders attributes
Envs ==
    {EnvOf(MainClasses[i], FALSE, FALSE) : i \in DOMAIN MainClasses}
    \cup {EnvOf(Nested, o, TRUE) : o \in BOOLEAN}

----------------------------------------------------------------------------
(* The state machine.                                                      *)

\* Two elements of the page a component can be rendered into or before
HOST == 2
SIBLING == 3

BODYTAG == <<"b", "o", "d", "y">>

Page ==
    (BODY :> [tag |-> BODYTAG, id |-> <<>>, attrs |-> <<>>, kids |-> <<NodeItem(HOST)>>,
              parent |-> 0])
    @@ (HOST :> [tag |-> DIV, id |-> <<>>, attrs |-> <<>>, kids |-> <<NodeItem(SIBLING)>>,
                 parent |-> BODY])
    @@ (SIBLING :> [tag |-> SPAN, id |-> <<>>, attrs |-> <<>>, kids |-> <<>>, parent |-> HOST])

\* The nodes the program can still reach
Live(w) ==
    Reach(w.heap,
          ({BODY, HOST, SIBLING} \cup {w.comp[c].element : c \in DOMAIN w.comp}
             \cup {w.surf[k].element : k \in DOMAIN w.surf}
             \cup {w.comp[c].elementContent.n : c \in DOMAIN w.comp}
             \cup UNION {{w.comp[c].collected[i].content.n : i \in DOMAIN w.comp[c].collected}
                           : c \in DOMAIN w.comp}
             \cup UNION {{w.comp[c].collected[i].cacheContent.n : i \in DOMAIN w.comp[c].collected}
                           : c \in DOMAIN w.comp}) \ {0})

\* The number of calls a run makes
MaxCalls == 3

\* The state after a public call: the nodes nothing refers to are gone
Commit(w, op, c, arg) ==
    /\ last.n < MaxCalls
    /\ comp' = w.comp
    /\ surf' = w.surf
    /\ reg' = w.reg
    /\ heap' = [n \in Live(w) |-> w.heap[n]]
    /\ env' = env
    /\ last' = [op |-> op, c |-> c, arg |-> arg, err |-> w.err, ret |-> w.ret,
                log |-> w.log, n |-> last.n + 1]

\* new Main({id: 'c'}), or new Main({element: '#c'}) on a page that holds
\* the server's markup
Start(envs, arg) ==
    \E e \in envs :
        LET f == buildFragment(Page, Prerendered)
            page == IF e.prerendered THEN moveChildren(f.heap, f.n, BODY) ELSE Page
            w0 == [comp |-> Empty, surf |-> Empty, reg |-> {}, heap |-> page, env |-> e,
                   log |-> <<>>, err |-> NoErr, ret |-> Undef]
            w == Call(w0, "Construct", <<"Main", C, getElementById(page, C), <<>>>>)
        IN /\ comp = w.comp
           /\ surf = w.surf
           /\ reg = w.reg
           /\ heap = [n \in Live(w) |-> w.heap[n]]
           /\ env = e
           /\ last = [op |-> "new", c |-> C, arg |-> arg, err |-> w.err, ret |-> Undef,
                     log |-> w.log, n |-> 0]

Init == Start(Envs, <<>>)

Render(c, parent, sibling) ==
    Commit(Call(World, "render", <<c, parent, sibling>>), "render", c, <<parent, sibling>>)

Decorate(c) == Commit(Call(World, "decorate", <<c>>), "decorate", c, <<>>)

Attach(c, parent, sibling) ==
    Commit(Call(World, "attach", <<c, parent, sibling>>), "attach", c, <<parent, sibling>>)

Detach(c) == Commit(Call(World, "detach", <<c>>), "detach", c, <<>>)

\* component.setAttrs(values), with the attrsChanged event it emits
SetAttrs(c, values) == Commit(Call(World, "setAttrs", <<c, values>>), "setAttrs", c, values)

\* component.renderSurfaceContent(surfaceElementId, content, cacheContent)
RenderSurfaceContent(c, surfaceElementId, content, cacheContent) ==
    Commit(Call(World, "renderSurfaceContent", <<c, surfaceElementId, content, cacheContent>>),
           "renderSurfaceContent", c, <<surfaceElementId, content, cacheContent>>)

\* component.getElementExtendedContent()
GetElementExtendedContent(c) ==
    Commit(Call(World, "getElementExtendedContent", <<c>>), "getElementExtendedContent", c, <<>>)

\* The values the calls are made with
Places == {<<0, 0>>, <<HOST, 0>>, <<HOST, SIBLING>>}
Renderings == {<<Undef, Undef>>, <<Str(<<Txt(X)>>), Undef>>, <<El(SIBLING), Undef>>,
               <<El(SIBLING), Str(<<Txt(X)>>)>>, <<Str(<<Txt(X)>>), Str(<<>>)>>}
AttrValues == {<<Entry("title", X)>>, <<Entry("title", Y)>>, <<Entry("note", Y)>>,
               <<Entry("title", Y), Entry("note", Y)>>}

\* collectedSurfaces_ grows with every expansion made before the first
\* attach; the calls that expand are made while it is shorter than this
MaxCollected == 1

Room(c) == Len(comp[c].collected) < MaxCollected

Next ==
    \/ \E c \in DOMAIN comp, at \in Places : Render(c, at[1], at[2])
    \/ \E c \in DOMAIN comp : Room(c) /\ Decorate(c)
    \/ \E c \in DOMAIN comp, at \in Places : Attach(c, at[1], at[2])
    \/ \E c \in DOMAIN comp : Detach(c)
    \/ \E c \in DOMAIN comp, values \in AttrValues : Room(c) /\ SetAttrs(c, values)
    \/ \E c \in DOMAIN comp, r \in Renderings :
          \E id \in {comp[c].surfaceIds[i].key : i \in DOMAIN comp[c].surfaceIds} :
              Room(c) /\ RenderSurfaceContent(c, id, r[1], r[2])
    \/ \E c \in DOMAIN comp : Room(c) /\ GetElementExtendedContent(c)

Spec == Init /\ [][Next]_vars

----------------------------------------------------------------------------
(* compareCacheStates_ on its own: a pair of cache states is drawn, and    *)
(* the one step applies the comparison to it.                              *)

\* The result of a predicate, as a returned value
Bool(b) == [t |-> "Bool", b |-> b]

\* The largest hash value drawn besides the hashes of the strings in use
MaxHash == 5

\* Cache states: both sentinels, small hashes, the hashes of strings the
\* components render, and the unsigned numbers one 32-bit wrap away from
\* the sentinels
CacheStates ==
    {NOT_INITIALIZED, NOT_CACHEABLE}
      \cup {Num(k) : k \in 0..MaxHash}
      \cup {<<Limb - 1, Limb - 1>>, <<Limb - 1, Limb - 2>>}
      \cup {hashCode(<<>>), hashCode(<<Txt(X)>>), hashCode(<<Txt(Y)>>)}

InitCompare ==
    \E current \in CacheStates, previous \in CacheStates :
        /\ comp = Empty
        /\ surf = Empty
        /\ reg = {}
        /\ heap = Page
        /\ env = [attrOrderChange |-> FALSE]
        /\ last = [op |-> "new", arg |-> <<current, previous>>, ret |-> Undef]

CompareCacheStates ==
    /\ last.op = "new"
    /\ last' = [last EXCEPT !.op = "compareCacheStates_",
                            !.ret = Bool(compareCacheStates_(last.arg[1], last.arg[2]))]
    /\ UNCHANGED <<comp, surf, reg, heap, env>>

NextCompare == CompareCacheStates

SpecCompare == InitCompare /\ [][NextCompare]_vars

----------------------------------------------------------------------------
(* replaceSurfacePlaceholders_ on its own: a content and the id of the     *)
(* surface it belongs to are drawn, and the one step expands the content   *)
(* in a newly constructed component.                                       *)

\* Contents: strings without a placeholder (text, markup, the opening or
\* closing characters of a placeholder alone, the empty string), strings
\* with one, an element and undefined
Contents ==
    {Str(<<>>), Str(<<Txt(X)>>), Str(<<Open(DIV, CA), Txt(Y), Close(DIV)>>),
     Str(<<Txt(PhOpen)>>), Str(<<Txt(PhClose), Txt(X)>>),
     Str(<<Txt(X), Ph(CA)>>), Str(<<Ph(NoId)>>), El(SIBLING), Undef}

InitExpand == \E content \in Contents, id \in {NoId, CA} : Start(Envs, <<content, id>>)

Expand ==
    /\ last.op = "new"
    /\ Commit(Call(World, "replaceSurfacePlaceholders_", <<C, last.arg[1], last.arg[2]>>),
              "replaceSurfacePlaceholders_", C, last.arg)

NextExpand == Expand

SpecExpand == InitExpand /\ [][NextExpand]_vars

----------------------------------------------------------------------------
(* Registering and removing surfaces, and disposal: the calls that change  *)
(* which surfaces and components exist, with the renders that follow them. *)

\* component.addSurface(surfaceId, surfaceConfig)
AddSurface(c, surfaceId, config) ==
    Commit(Call(World, "addSurface", <<c, surfaceId, config, Empty>>),
           "addSurface", c, <<surfaceId, config>>)

\* component.removeSurface(surfaceId)
RemoveSurface(c, surfaceId) ==
    Commit(Call(World, "removeSurface", <<c, surfaceId>>), "removeSurface", c, <<surfaceId>>)

\* component.getSurfaces()
GetSurfaces(c) == Commit(Call(World, "getSurfaces", <<c>>), "getSurfaces", c, <<>>)

\* component.getSurfaceElement(surfaceId)
GetSurfaceElement(c, surfaceId) ==
    Commit(Call(World, "getSurfaceElement", <<c, surfaceId>>),
           "getSurfaceElement", c, <<surfaceId>>)

\* component.dispose()
Dispose(c) == Commit(Call(World, "dispose", <<c>>), "dispose", c, <<>>)

\* The classes with registered surfaces: plain ones, and one backed by a
\* nested component
SurfaceEnvs == {EnvOf(Plain, FALSE, FALSE), EnvOf(Composite, FALSE, FALSE)}

\* The local ids and configurations surfaces are registered with: a local
\* id, an id that has the prefix of component c, an explicit element id,
\* a component name, the name of a component that is not registered, and a
\* configuration that carries the cache state of the content of surface a
Registrations ==
    {<<B, NoCfg>>, <<CB, Cfg(<<"title">>)>>, <<B, [NoCfg EXCEPT !.surfaceElementId = CA]>>,
     <<K, [NoCfg EXCEPT !.componentName = "Widget"]>>,
     <<Z, [NoCfg EXCEPT !.componentName = "Gadget"]>>,
     <<A, [Cfg(<<"title">>) EXCEPT !.cacheState = hashCode(<<Txt(Z)>>)]>>}

\* The ids surfaces are removed and looked up by
SurfaceNames == {A, CA, W}

\* Calls are made on the components that were not disposed; dispose() on
\* all of them.  No component registers a nested component under its own id.
Alive == {c \in DOMAIN comp : ~comp[c].disposed}

InitSurfaces == Start(SurfaceEnvs, <<>>)

NextSurfaces ==
    \/ \E c \in Alive, r \in Registrations : r[1] # c /\ AddSurface(c, r[1], r[2])
    \/ \E c \in Alive, id \in SurfaceNames : RemoveSurface(c, id)
    \/ \E c \in Alive : GetSurfaces(c)
    \/ \E c \in Alive, id \in SurfaceNames : GetSurfaceElement(c, id)
    \/ \E c \in DOMAIN comp : Dispose(c)
    \/ \E c \in Alive : Render(c, 0, 0)
    \/ \E c \in Alive : SetAttrs(c, <<Entry("title", Y)>>)

SpecSurfaces == InitSurfaces /\ [][NextSurfaces]_vars

----------------------------------------------------------------------------
(* Surfaces that are registered statically and also named by a placeholder *)
(* in the content of another registered surface, in both orders of         *)
(* registration, and a class with anonymous placeholders; the content may  *)
(* be expanded any number of times before the first attach.                *)

\* b is registered before a, whose content holds the placeholder of b
InnerFirst ==
    ClassOf(Undef,
            <<Entry(B, Cfg(<<"title">>)), Entry(A, Cfg(<<"title">>))>>,
            (A :> Str(<<AttrTok("title"), Ph(CB)>>)) @@ (B :> Str(<<AttrTok("title")>>)))

\* a is registered before b
OuterFirst ==
    ClassOf(Undef,
            <<Entry(A, Cfg(<<"title">>)), Entry(B, Cfg(<<"title">>))>>,
            (A :> Str(<<AttrTok("title"), Ph(CB)>>)) @@ (B :> Str(<<AttrTok("title")>>)))

ReachedEnvs ==
    {EnvOf(InnerFirst, FALSE, FALSE), EnvOf(OuterFirst, FALSE, FALSE),
     EnvOf(Siblings, FALSE, FALSE)}

InitReached == Start(ReachedEnvs, <<>>)

NextReached ==
    \/ \E c \in DOMAIN comp, at \in Places : Render(c, at[1], at[2])
    \/ \E c \in DOMAIN comp : Decorate(c)
    \/ \E c \in DOMAIN comp, values \in AttrValues : SetAttrs(c, values)
    \/ \E c \in DOMAIN comp, at \in Places : Attach(c, at[1], at[2])
    \/ \E c \in DOMAIN comp : Detach(c)
    \/ \E c \in DOMAIN comp : GetElementExtendedContent(c)

SpecReached == InitReached /\ [][NextReached]_vars

----------------------------------------------------------------------------
(* The expansion of the element content in steps: replaceSurfacePlaceholders_ *)
(* calls itself for the content of every placeholder it finds, and a step  *)
(* is one match of the scanner or one return.  `last.stack` holds the      *)
(* calls that are running, the innermost last.  The contents of the        *)
(* surfaces a, b and k are drawn, those that name each other in a circle   *)
(* included.                                                               *)

\* The contents a surface is given
Pieces ==
    {<<Txt(X)>>, <<Ph(CA)>>, <<Ph(CB)>>, <<Ph(CK)>>, <<Ph(CB), Txt(Y), Ph(CK)>>,
     <<Ph(CK), Ph(CK)>>}

Circular(a, b, k) ==
    ClassOf(Str(<<Ph(CA), Txt(X), Ph(CB)>>),
            <<Entry(A, NoCfg), Entry(B, NoCfg), Entry(K, NoCfg)>>,
            (A :> Str(a)) @@ (B :> Str(b)) @@ (K :> Str(k)))

StepEnvs == {EnvOf(Circular(a, b, k), FALSE, FALSE) : a \in Pieces, b \in Pieces, k \in Pieces}

\* The calls of replaceSurfacePlaceholders_ that run at a time; a call more
\* is not started
MaxDepth == 4

\* One running call: what the scanner has not reached yet, what it has
\* produced, the surface the content belongs to and the content to cache
Frame(toks, id, cacheContent) ==
    [toks |-> toks, acc |-> <<>>, id |-> id, cacheContent |-> cacheContent]

NoMatches(toks) == {}

\* The positions of the placeholders the scanner matches in a content
Matches(toks) == {i \in DOMAIN toks : toks[i].k = "ph"}

\* What follows the match at a position: the scanner goes on behind it
Behind(toks, at) == SubSeq(toks, at + 1, Len(toks))

InitSteps == Start(StepEnvs, <<>>) /\ last.op = "new"

Step(w, op, stack, n) ==
    /\ comp' = w.comp
    /\ surf' = w.surf
    /\ reg' = w.reg
    /\ heap' = [x \in Live(w) |-> w.heap[x]]
    /\ env' = env
    /\ last' = [op |-> op, c |-> C, arg |-> <<>>, err |-> w.err, ret |-> w.ret,
                log |-> w.log, n |-> n, stack |-> stack]

\* getElementExtendedContent() is called: the element content is fetched
\* and its expansion starts
ExpandStart ==
    /\ last.op = "new"
    /\ LET w == Call(World, "getElementContent_", <<C>>)
       IN IF Ok(w) /\ isString(w.ret)
          THEN Step(w, "expanding", <<Frame(w.ret.s, NoId, Undef)>>, 0)
          ELSE Step(w, "expanded", <<>>, 0)

\* The scanner of the innermost call matches its next placeholder: the
\* surface is created and marked, its content fetched and wrapped, and the
\* expansion of that content starts
ExpandMatch ==
    /\ last.op = "expanding"
    /\ Len(last.stack) < MaxDepth
    /\ Matches(last.stack[Len(last.stack)].toks) # {}
    /\ LET top == last.stack[Len(last.stack)]
           at == CHOOSE i \in Matches(top.toks) : \A j \in Matches(top.toks) : i <= j
           scanned == [top EXCEPT !.acc = @ \o SubSeq(top.toks, 1, at - 1),
                                  !.toks = Behind(top.toks, at)]
           running == [last.stack EXCEPT ![Len(last.stack)] = scanned]
       IN \E m \in {Call(World, "replaceMatchStart", <<C, top.toks[at].v, top.id>>)} :
              IF ~Ok(m) THEN Step(m, "expanded", <<>>, last.n)
              ELSE Step(Ret(m, m.ret.html), "expanding",
                        Append(running, Frame(AsTokens(m.ret.html), m.ret.s,
                                              m.ret.cacheContent)),
                        last.n + 1)

\* The scanner of the innermost call finds no further placeholder: the call
\* returns its text, which the call that made it records as collected and
\* puts in the place of the placeholder
ExpandReturn ==
    /\ last.op = "expanding"
    /\ LET depth == Len(last.stack)
           top == last.stack[depth]
           expandedHtml == Str(top.acc \o top.toks)
           collected == [World EXCEPT !.comp[C].collected =
                            Append(@, [cacheContent |-> top.cacheContent,
                                       content |-> expandedHtml,
                                       surfaceElementId |-> top.id])]
       IN /\ Matches(top.toks) = {}
          /\ IF depth = 1 THEN Step(Ret(World, expandedHtml), "expanded", <<>>, last.n)
             ELSE Step(Ret(collected, expandedHtml), "expanding",
                       [SubSeq(last.stack, 1, depth - 1) EXCEPT
                           ![depth - 1].acc = @ \o expandedHtml.s],
                       last.n)

NextSteps == ExpandStart \/ ExpandMatch \/ ExpandReturn

\* Every call runs to its end unless it goes on forever
SpecSteps == InitSteps /\ [][NextSteps]_vars /\ WF_vars(NextSteps)

----------------------------------------------------------------------------
(* buildPlaceholder and Component.SURFACE_REGEX on their own, character by *)
(* character: an id is drawn, the first step builds its placeholder and    *)
(* the second scans the text that was built.                               *)

\* The characters ids are made of, and the longest id drawn
Letters == {"a", "s", "-", "%", "~", ":"}
MaxLen == 3

\* The ids: strings, the empty one included, and no id at all
Ids == {Undef} \cup {Str(id) : id \in UNION {[1..n -> Letters] : n \in 0..MaxLen}}

NotInIdNorDash == {"~", ":", "-"}

\* [^~:] : the characters the id of a placeholder does not hold
NotInId == {"~", ":"}

\* Whether the characters of pat stand in chars from position i on
IsAt(chars, i, pat) ==
    i + Len(pat) - 1 <= Len(chars) /\ SubSeq(chars, i, i + Len(pat) - 1) = pat

\* ([^~:]+) from position i on: the last position of the longest run
RECURSIVE RunEnd(_, _)
RunEnd(chars, i) ==
    IF i <= Len(chars) /\ chars[i] \notin NotInId THEN RunEnd(chars, i + 1) ELSE i - 1

\* /%%%%~s(?:-([^~:]+))?~%%%%/ at position i: whether it matches, where the
\* match ends and the id it captures.  A run ends before a '~' or a ':', so
\* no shorter run is followed by the closing characters either
MatchAt(chars, i) ==
    LET p == i + Len(PhOpen)
        e == RunEnd(chars, p + 1)
    IN IF ~IsAt(chars, i, PhOpen) THEN [ok |-> FALSE, to |-> i, id |-> Undef]
       ELSE IF IsAt(chars, p, <<"-">>) /\ e > p /\ IsAt(chars, e + 1, PhClose)
       THEN [ok |-> TRUE, to |-> e + Len(PhClose), id |-> Str(SubSeq(chars, p + 1, e))]
       ELSE IF IsAt(chars, p, PhClose)
       THEN [ok |-> TRUE, to |-> p + Len(PhClose) - 1, id |-> Undef]
       ELSE [ok |-> FALSE, to |-> i, id |-> Undef]

\* The flag g: the matches from left to right, each search starting behind
\* the match before
RECURSIVE SURFACE_REGEX(_, _)
SURFACE_REGEX(chars, i) ==
    IF i > Len(chars) THEN <<>>
    ELSE LET m == MatchAt(chars, i)
         IN IF m.ok THEN <<[from |-> i, to |-> m.to, id |-> m.id]>> \o SURFACE_REGEX(chars, m.to + 1)
            ELSE SURFACE_REGEX(chars, i + 1)

InitScan ==
    \E id \in Ids :
        /\ comp = Empty
        /\ surf = Empty
        /\ reg = {}
        /\ heap = Page
        /\ env = [attrOrderChange |-> FALSE]
        /\ last = [op |-> "new", arg |-> <<id>>, text |-> <<>>, ret |-> Undef]

\* buildPlaceholder(id), and buildPlaceholder() when no id was drawn
BuildPlaceholder ==
    /\ last.op = "new"
    /\ last' = [last EXCEPT
                   !.op = "buildPlaceholder",
                   !.text = StrChars(buildPlaceholder(IF Truthy(last.arg[1])
                                                      THEN last.arg[1].s ELSE NoId))]
    /\ UNCHANGED <<comp, surf, reg, heap, env>>

\* text.replace(Component.SURFACE_REGEX, ...): the matches in the text
Scan ==
    /\ last.op = "buildPlaceholder"
    /\ last' = [last EXCEPT !.op = "scan", !.ret = SURFACE_REGEX(last.text, 1)]
    /\ UNCHANGED <<comp, surf, reg, heap, env>>

NextScan == BuildPlaceholder \/ Scan

SpecScan == InitScan /\ [][NextScan]_vars

----------------------------------------------------------------------------

(* The properties.  A step is one public call; `last` tells which one.     *)

Called(op, c) == last'.op = op /\ last'.c = c

\* How often the event e of component c is in the log
Count(log, e, c) == Cardinality({i \in DOMAIN log : log[i].e = e /\ log[i].c = c})

\* C1: wasRendered is never reset, whatever is called, render() sets it when
\* it returns, and render() on a component whose wasRendered is set throws
\* AlreadyRendered and leaves the components (wasRendered, inDocument), the
\* surfaces (their cache states) and the DOM as they were.
C1_RenderAgainThrows ==
    [][\A c \in DOMAIN comp :
          /\ comp[c].wasRendered => comp'[c].wasRendered
          /\ Called("render", c) /\ last'.err = NoErr => comp'[c].wasRendered
          /\ Called("render", c) /\ comp[c].wasRendered =>
                /\ last'.err = "AlreadyRendered"
                /\ comp' = comp /\ surf' = surf /\ heap' = heap /\ reg' = reg]_vars

\* A third call that is a render() refused on a component that was detached
\* in between
C1_Witness ==
    /\ last.n = 3 /\ last.op = "render" /\ last.err = "AlreadyRendered"
    /\ comp[last.c].wasRendered /\ ~comp[last.c].inDocument

\* C2: decorate() on a component that completed render() or decorate()
\* (wasRendered is set) throws AlreadyRendered, attached or detached.
C2_DecorateAgainThrows ==
    [][\A c \in DOMAIN comp :
          Called("decorate", c) /\ comp[c].wasRendered => last'.err = "AlreadyRendered"]_vars

\* C3: attach() on a component in the document changes nothing and calls no
\* hook (nothing but its own entry is recorded); an attach() that returns on a component out of the document calls
\* the attached hook once; after an attach() that returns the component is
\* in the document.
C3_AttachOncePerTransition ==
    [][\A c \in DOMAIN comp :
          Called("attach", c) =>
             /\ comp[c].inDocument =>
                   /\ last'.err = NoErr /\ last'.log = <<Ev("attach", c, NoId)>>
                   /\ comp' = comp /\ surf' = surf /\ heap' = heap
             /\ ~comp[c].inDocument /\ last'.err = NoErr =>
                   Count(last'.log, "attached", c) = 1
             /\ last'.err = NoErr => comp'[c].inDocument]_vars

\* An attach() on a component in the document: it stays there, without a hook
C3_Witness ==
    /\ last.n >= 2 /\ last.op = "attach" /\ last.err = NoErr
    /\ last.log = <<Ev("attach", last.c, NoId)>> /\ comp[last.c].inDocument

C5_CompareIffRealAndEqual ==
    last.op = "compareCacheStates_" =>
        (last.ret.b <=> /\ last.arg[1] \notin {NOT_INITIALIZED, NOT_CACHEABLE}
                        /\ last.arg[2] \notin {NOT_INITIALIZED, NOT_CACHEABLE}
                        /\ last.arg[1] = last.arg[2])

C5_Witness ==
    /\ last.op = "compareCacheStates_"
    /\ last.ret.b
    /\ last.arg[1] = hashCode(<<Txt(X)>>)

\* C6: a non-component surface rendered twice in a row with the same string
\* content, outside decoration, is a cache hit the second time: its DOM
\* content is not replaced and its cache state stays what the first call left
C6_SameStringIsHit ==
    [][\A c \in DOMAIN comp :
          /\ last.op = "renderSurfaceContent" /\ last.c = c /\ last.err = NoErr
          /\ Called("renderSurfaceContent", c) /\ last'.arg = last.arg
          /\ isString(last.arg[2])
          /\ ~comp[c].decorating
          /\ getSurface(World, c, last.arg[1]) # NoId
          /\ surf[getSurface(World, c, last.arg[1])].componentName = ""
          => /\ last'.err = NoErr
             /\ Count(last'.log, "hit", c) >= 1
             /\ \A i \in DOMAIN last'.log :
                   last'.log[i].id = last.arg[1] =>
                       last'.log[i].e \notin {"miss", "dom"}
             /\ surf'[getSurface(World, c, last.arg[1])].cacheState
                  = surf[getSurface(World, c, last.arg[1])].cacheState]_vars

C6_Witness ==
    /\ last.n = 3
    /\ last.op = "renderSurfaceContent"
    /\ isString(last.arg[2])
    /\ last.err = NoErr
    /\ comp[last.c].wasRendered
    /\ \E i \in DOMAIN last.log : last.log[i].e = "hit" /\ last.log[i].id = last.arg[1]
    /\ surf[getSurface(World, last.c, last.arg[1])].cacheState = hashCode(last.arg[2].s)

\* C7: every renderSurfaceContent call with content that is not a string is
\* a cache miss that replaces the DOM content of the surface
C7_NonStringAlwaysMisses ==
    [][\A c \in DOMAIN comp :
          /\ Called("renderSurfaceContent", c)
          /\ Truthy(last'.arg[2]) /\ ~isString(last'.arg[2])
          /\ getSurface(World, c, last'.arg[1]) # NoId
          /\ surf[getSurface(World, c, last'.arg[1])].componentName = ""
          => /\ computeSurfaceCacheState_(World, last'.arg[2]) = NOT_CACHEABLE
             /\ \E i \in DOMAIN last'.log :
                   last'.log[i].e = "miss" /\ last'.log[i].id = last'.arg[1]
             /\ \E i \in DOMAIN last'.log :
                   last'.log[i].e = "dom" /\ last'.log[i].id = last'.arg[1]]_vars

\* The entries one call appended to collectedSurfaces_ of component c
Collected(c) ==
    SubSeq(comp'[c].collected, Len(comp[c].collected) + 1, Len(comp'[c].collected))

\* Where the element with the given id opens in a markup string, 0 if nowhere
OpensAt(toks, id) ==
    LET at == {i \in DOMAIN toks : toks[i].k = "open" /\ toks[i].v = id}
    IN IF at = {} THEN 0 ELSE CHOOSE i \in at : \A j \in at : i <= j

\* The surface of entry inner lies inside the content of entry outer
Inside(inner, outer) ==
    /\ inner.surfaceElementId # outer.surfaceElementId
    /\ isString(outer.content)
    /\ OpensAt(outer.content.s, inner.surfaceElementId) # 0

\* C8: the entries one expansion collects are in post-order: a surface comes
\* after every surface nested inside it, and surfaces that are not nested in
\* each other come in document order; A holding B holding C gives [C, B, A]
C8_CollectedIsPostOrder ==
    [][\A c \in DOMAIN comp :
          Called("getElementExtendedContent", c) /\ last'.err = NoErr =>
              LET new == Collected(c)
                  doc == last'.ret.s
              IN /\ \A i, j \in DOMAIN new :
                       /\ Inside(new[j], new[i]) => j < i
                       /\ /\ ~Inside(new[j], new[i]) /\ ~Inside(new[i], new[j])
                          /\ OpensAt(doc, new[i].surfaceElementId)
                               < OpensAt(doc, new[j].surfaceElementId)
                          => i < j
                       /\ OpensAt(doc, new[i].surfaceElementId) # 0
                 /\ env.cls["Main"] = Nested /\ c = C =>
                       [i \in DOMAIN new |-> new[i].surfaceElementId] = <<CK, CB, CA>>]_vars

C8_Witness ==
    /\ last.op = "getElementExtendedContent"
    /\ last.err = NoErr
    /\ env.cls["Main"] = Nested
    /\ ~comp[C].wasRendered
    /\ [i \in DOMAIN comp[C].collected |-> comp[C].collected[i].surfaceElementId]
         = <<CK, CB, CA>>

\* The ids of the events e of component c in a log, in the order of the log
RECURSIVE IdsOf(_, _, _)
IdsOf(log, e, c) ==
    IF log = <<>> THEN <<>>
    ELSE (IF Head(log).e = e /\ Head(log).c = c THEN <<Head(log).id>> ELSE <<>>)
           \o IdsOf(Tail(log), e, c)

\* The part of a log before its first event e of component c
Before(log, e, c) ==
    LET at == {i \in DOMAIN log : log[i].e = e /\ log[i].c = c}
    IN IF at = {} THEN log ELSE SubSeq(log, 1, (CHOOSE i \in at : \A j \in at : i <= j) - 1)

Reverse(s) == [i \in DOMAIN s |-> s[Len(s) + 1 - i]]

\* Node n lies inside node m
RECURSIVE Within(_, _, _)
Within(h, n, m) ==
    /\ n # 0 /\ m # 0
    /\ h[n].parent # 0
    /\ (h[n].parent = m \/ Within(h, h[n].parent, m))

\* C9: a call that finalizes the collected surfaces of a component walks the
\* collected list from last to first, so that a surface is finalized only
\* after every surface it lies inside has been finalized
C9_FinalizeParentsFirst ==
    [][\A c \in DOMAIN comp :
          last'.c = c /\ last'.err = NoErr /\ Count(last'.log, "finalize", c) > 0 =>
              LET done == IdsOf(last'.log, "finalize", c)
                  listed == [i \in DOMAIN comp[c].collected |->
                               comp[c].collected[i].surfaceElementId]
                              \o IdsOf(Before(last'.log, "finalize", c), "collect", c)
                  after == [comp |-> comp', heap |-> heap']
              IN /\ done = Reverse(listed)
                 /\ \A j, k \in DOMAIN done :
                       Within(heap', findElementById_(after, c, done[j]),
                              findElementById_(after, c, done[k]))
                       => \E i \in 1..(j - 1) : done[i] = done[k]]_vars

C9_Witness ==
    /\ last.op = "render"
    /\ last.err = NoErr
    /\ env.cls["Main"] = Nested
    /\ IdsOf(last.log, "collect", C) = <<CK, CB, CA>>
    /\ IdsOf(last.log, "finalize", C) = <<CA, CB, CK>>
    /\ Within(heap, getElementById(heap, CK), getElementById(heap, CA))

\* C10: expanding a string without placeholders, or a content that is not a
\* string, returns the content as it is, registers no surface, appends
\* nothing to the collected list and marks no surface handled
C10_ExpandWithoutPlaceholders ==
    [][/\ last'.op = "replaceSurfacePlaceholders_"
       /\ (isString(last.arg[1]) => \A i \in DOMAIN last.arg[1].s : last.arg[1].s[i].k # "ph")
       => /\ last'.err = NoErr
          /\ last'.ret = last.arg[1]
          /\ DOMAIN surf' = DOMAIN surf
          /\ \A k \in DOMAIN surf : surf'[k].handled = surf[k].handled
          /\ \A c \in DOMAIN comp :
                /\ comp'[c].collected = comp[c].collected
                /\ comp'[c].surfaceIds = comp[c].surfaceIds]_vars

C10_Witness ==
    /\ last.op = "replaceSurfacePlaceholders_"
    /\ last.ret = Str(<<Open(DIV, CA), Txt(Y), Close(DIV)>>)
    /\ last.arg[2] = CA
    /\ comp[C].collected = <<>>

\* The attributes a setAttrs(values) call changes
Changed(c, values) ==
    {values[i].key : i \in {j \in DOMAIN values :
                              \/ values[j].key \notin DOMAIN comp[c].attrs
                              \/ comp[c].attrs[values[j].key] # values[j].val}}

\* Surface s was rendered during the call: its content was compared with the
\* cache, or its nested component was updated
Rerendered(log, s) ==
    \E i \in DOMAIN log : \/ log[i].e \in {"hit", "miss"} /\ log[i].id = s
                          \/ log[i].e = "update" /\ log[i].c = s

\* The surfaces of component c whose element lies in no other surface of c
TopSurfaces(c) ==
    LET ids == {comp[c].surfaceIds[i].key : i \in DOMAIN comp[c].surfaceIds} \cap DOMAIN surf
        w == World
    IN {s \in ids : \A t \in ids \ {s} :
                       ~Within(heap, findElementById_(w, c, s), findElementById_(w, c, t))}

\* C11: when the attributes of a component in the document change, a surface
\* is rendered again exactly when one of the changed attributes is among its
\* renderAttrs
C11_RerenderIffRenderAttr ==
    [][\A c \in DOMAIN comp :
          Called("setAttrs", c) /\ comp[c].inDocument /\ last'.err = NoErr =>
              \A s \in TopSurfaces(c) :
                  Rerendered(last'.log, s)
                    <=> \E i \in DOMAIN surf[s].renderAttrs :
                           surf[s].renderAttrs[i] \in Changed(c, last'.arg)]_vars

\* The surfaces of component c that are backed by a nested component
ComponentSurfaces(c) ==
    {s \in {comp[c].surfaceIds[i].key : i \in DOMAIN comp[c].surfaceIds} \cap DOMAIN surf :
        surf[s].componentName # ""}

\* C12: the nested component of a surface with componentName is created once,
\* when the surface is registered; no call creates another instance, and a
\* render of the surface after the nested component was rendered makes one
\* updateComponent call and no createComponent call
C12_OneNestedInstance ==
    [][\A c \in DOMAIN comp : \A s \in ComponentSurfaces(c) :
          /\ s \in DOMAIN comp /\ s \in DOMAIN comp'
          /\ last.n = 0 => Count(last.log, "create", s) = 1
          /\ Count(last'.log, "create", s) = 0
          /\ Called("renderSurfaceContent", c) /\ last'.arg[1] = s /\ comp[s].wasRendered
             => Count(last'.log, "update", s) = 1]_vars

C12_Witness ==
    /\ last.op = "renderSurfaceContent"
    /\ last.arg[1] = W
    /\ last.c = C
    /\ last.err = NoErr
    /\ comp[W].wasRendered
    /\ Count(last.log, "update", W) = 1
    /\ Count(last.log, "create", W) = 0

\* C13: during decorate(), a surface whose markup in the document hashes
\* equal to its newly computed content is a cache hit: its DOM is not
\* replaced by that rendering (a later write of the surface follows a later
\* cache miss), and its inline listeners are attached; when no surface is
\* replaced, the element it had in the document is the one it keeps
C13_DecorateKeepsMatchingMarkup ==
    [][\A c \in DOMAIN comp :
          Called("decorate", c) /\ last'.err = NoErr =>
              \A i \in DOMAIN last'.log :
                  last'.log[i].e = "hit" /\ last'.log[i].c = c =>
                      LET s == last'.log[i].id
                      IN /\ \A j \in DOMAIN last'.log :
                               j > i /\ last'.log[j] = Ev("dom", c, s)
                                 => \E k \in DOMAIN last'.log :
                                       k > i /\ k < j /\ last'.log[k] = Ev("miss", c, s)
                         /\ \E j \in DOMAIN last'.log :
                               /\ j > i
                               /\ last'.log[j] = Ev("listen", c, s)
                         /\ s \in comp'[c].listeners
                         /\ Count(last'.log, "dom", c) = 0 /\ findElementById_(World, c, s) # 0
                            => findElementById_([comp |-> comp', heap |-> heap'], c, s)
                                 = findElementById_(World, c, s)]_vars

C13_Witness ==
    /\ last.op = "decorate"
    /\ last.err = NoErr
    /\ env.prerendered
    /\ \A s \in {CA, CB, CK} :
          /\ Count(last.log, "hit", C) = 3
          /\ \E i \in DOMAIN last.log : last.log[i] = Ev("hit", C, s)
          /\ \A i \in DOMAIN last.log : last.log[i] # Ev("dom", C, s)
          /\ s \in comp[C].listeners

\* C14: with root content "<div>%%%%~s-a~%%%%</div>" and "Hi" as the content
\* of surface a, the root element of component c holds after render() one
\* element with id "c-a", whose content is the text "Hi"
C14_PlaceholderElementId ==
    /\ env.cls["Main"] = LocalId
    /\ last.n = 1 /\ last.op = "render" /\ last.c = C /\ last.err = NoErr
    => LET inside == ElementsIn(heap, heap[comp[C].element].kids)
           named == {i \in DOMAIN inside : heap[inside[i]].id = CA}
       IN /\ Cardinality(named) = 1
          /\ \A i \in named : heap[inside[i]].kids = <<Txt(<<"H", "i">>)>>

\* Whether the text s begins with the text p
StartsWith(s, p) == Len(s) >= Len(p) /\ \A i \in DOMAIN p : s[i] = p[i]

\* The element ids component c owns after the call, as a set
OwnedAfter(c) == {comp'[c].surfaceIds[i].key : i \in DOMAIN comp'[c].surfaceIds}
OwnedBefore(c) == {comp[c].surfaceIds[i].key : i \in DOMAIN comp[c].surfaceIds}

\* C15, as amended: a surface that component c registers under the local id
\* L has the explicit element id of its configuration when there is one, L
\* itself when the configuration names a component or L begins with the id
\* of c and "-", and the id of c, "-" and L otherwise
C15_ElementIdOfSurface ==
    [][\A c \in DOMAIN comp :
          Called("addSurface", c) /\ last'.err = NoErr =>
              LET L == last'.arg[1]
                  config == last'.arg[2]
                  id == IF config.surfaceElementId # NoId THEN config.surfaceElementId
                        ELSE IF config.componentName # "" \/ StartsWith(L, c \o <<"-">>) THEN L
                        ELSE c \o <<"-">> \o L
              IN /\ OwnedAfter(c) = OwnedBefore(c) \cup {id}
                 /\ id \in DOMAIN surf'
                 /\ surf'[id].renderAttrs = config.renderAttrs
                 /\ surf'[id].componentName = config.componentName]_vars

C15_Witness ==
    /\ last.op = "addSurface"
    /\ last.err = NoErr
    /\ last.c = C
    /\ last.arg[1] = K
    /\ last.arg[2].componentName = "Widget"
    /\ K \in DOMAIN surf
    /\ CK \notin DOMAIN surf

\* C15, as stated: the element id is the explicit id of the configuration,
\* L when L begins with the id of c and "-", and the id of c, "-" and L in
\* every other case
C15_ElementIdAsStated ==
    [][\A c \in DOMAIN comp :
          Called("addSurface", c) /\ last'.err = NoErr =>
              LET L == last'.arg[1]
                  config == last'.arg[2]
                  id == IF config.surfaceElementId # NoId THEN config.surfaceElementId
                        ELSE IF StartsWith(L, c \o <<"-">>) THEN L
                        ELSE c \o <<"-">> \o L
              IN /\ OwnedAfter(c) = OwnedBefore(c) \cup {id}
                 /\ id \in DOMAIN surf']_vars

\* The element ids that surfaceIds_ of component c holds with the value true
\* in the components cm
Owns(cm, c) == {cm[c].surfaceIds[i].key : i \in {j \in DOMAIN cm[c].surfaceIds :
                                                    cm[c].surfaceIds[j].val}}

\* C16: no surface element id is owned by two components that are not
\* disposed, and addSurface with an id that another component owns leaves
\* the record of that component as it was
C16_ElementIdsAreUnique ==
    [][/\ \A c, d \in DOMAIN comp' :
             c # d /\ ~comp'[c].disposed /\ ~comp'[d].disposed
               => Owns(comp', c) \cap Owns(comp', d) = {}
       /\ \A c \in DOMAIN comp : Called("addSurface", c) =>
             \A d \in DOMAIN comp \ {c} : \A id \in Owns(comp, d) \cap DOMAIN surf :
                 ~comp[d].disposed => id \in DOMAIN surf' /\ surf'[id] = surf[id]]_vars

\* C17: dispose() of a component disposes every nested component it created
\* for a surface: one that was not disposed is removed from the component
\* registry and disposed, once each; one that was disposed already is
\* neither removed nor disposed again
C17_DisposeCascades ==
    [][\A c \in DOMAIN comp :
          Called("dispose", c) /\ last'.err = NoErr /\ ~comp[c].disposed =>
              /\ comp'[c].disposed
              /\ \A i \in DOMAIN comp[c].components :
                    LET s == comp[c].components[i]
                    IN /\ comp'[s].disposed
                       /\ ~comp[s].disposed =>
                             /\ s \notin reg'
                             /\ Count(last'.log, "removeComponent", s) = 1
                             /\ Count(last'.log, "dispose", s) = 1
                       /\ comp[s].disposed =>
                             /\ Count(last'.log, "removeComponent", s) = 0
                             /\ Count(last'.log, "dispose", s) = 0
                             /\ s \in reg' <=> s \in reg]_vars

C17_Witness ==
    /\ last.op = "dispose"
    /\ last.c = C
    /\ last.err = NoErr
    /\ comp[C].disposed
    /\ W \in DOMAIN comp /\ comp[W].disposed /\ W \notin reg
    /\ Count(last.log, "removeComponent", W) = 1
    /\ Count(last.log, "dispose", W) = 1

\* The world after the call
After == [comp |-> comp', surf |-> surf', reg |-> reg', heap |-> heap', env |-> env',
          log |-> <<>>, err |-> NoErr, ret |-> Undef]

\* The element ids component c removed: surfaceIds_ holds them with false
Removed(cm, c) == {cm[c].surfaceIds[i].key : i \in {j \in DOMAIN cm[c].surfaceIds :
                                                       ~cm[c].surfaceIds[j].val}}

\* C18: after removeSurface(id) of a surface the component owns, and after
\* dispose() for every surface the component owned, the registry holds no record for the element id,
\* getSurface(id) and getSurfaceElement(id) return null, and getSurfaces()
\* does not report the surface
C18_RemovedSurfaceIsGone ==
    [][\A c \in DOMAIN comp :
          /\ Called("removeSurface", c) /\ last'.err = NoErr
                /\ Owns(comp, c) \ Owns(comp', c) # {} =>
                /\ (Owns(comp, c) \ Owns(comp', c)) \cap DOMAIN surf' = {}
                /\ getSurface(After, c, last'.arg[1]) = NoId
                /\ getSurfaceElement(After, c, last'.arg[1]).ret = El(0)
          /\ Called("dispose", c) /\ last'.err = NoErr =>
                OwnedBefore(c) \cap DOMAIN surf' = {}
          /\ Called("getSurfaceElement", c) /\ getSurface(World, c, last'.arg[1]) = NoId =>
                last'.err = NoErr /\ last'.ret = El(0)
          /\ Called("getSurfaces", c) =>
                /\ last'.err = NoErr
                /\ \A e \in Removed(comp, c) :
                      \A i \in DOMAIN last'.ret.s : last'.ret.s[i] # getSurfaceId_(c, e, NoCfg)]_vars



\* C19: once a component removed a surface, its render() and the updates
\* that follow setAttrs() return without raising, and no content of the
\* removed surface is looked up in the cache or written
C19_RenderAfterRemoveSurface ==
    [][\A c \in DOMAIN comp :
          /\ Called("render", c) \/ Called("setAttrs", c)
          /\ Removed(comp, c) # {}
          => /\ last'.err = NoErr
             /\ \A e \in Removed(comp, c) : \A i \in DOMAIN last'.log :
                   last'.log[i].e \in {"hit", "miss", "dom"} => last'.log[i].id # e]_vars


\* C20: render() writes the DOM content of every surface the component has
\* registered that holds no component and whose content is not null (the
\* surfaces whose content reaches the cache comparison), whatever cache state
\* the surface held before the call
C20_RenderIgnoresCache ==
    [][\A c \in DOMAIN comp :
          Called("render", c) /\ last'.err = NoErr =>
             \A e \in Owns(comp, c) \cap DOMAIN surf :
                /\ surf[e].componentName = ""
                /\ \E i \in DOMAIN last'.log :
                      last'.log[i].e \in {"hit", "miss"} /\ last'.log[i] = Ev(last'.log[i].e, c, e)
                => \E i \in DOMAIN last'.log : last'.log[i] = Ev("dom", c, e)]_vars


\* The content renderSurfaceContent resolves for a surface: the argument
\* when it is truthy, else what the content provider returns
Resolved(c, id, optContent) ==
    IF Truthy(optContent) THEN optContent ELSE getSurfaceContent_(World, c, id).ret

\* C21: renderSurfaceContent on a surface that holds no component and whose
\* resolved content is undefined or null raises nothing and leaves the
\* surface records (cache states included), the DOM and the components
\* (listeners included) as they were
C21_NoContentChangesNothing ==
    [][\A c \in DOMAIN comp :
          /\ Called("renderSurfaceContent", c)
          /\ getSurface(World, c, last'.arg[1]) # NoId
          /\ surf[getSurface(World, c, last'.arg[1])].componentName = ""
          /\ ~isDefAndNotNull(Resolved(c, last'.arg[1], last'.arg[2]))
          => /\ last'.err = NoErr
             /\ surf' = surf
             /\ heap' = heap
             /\ comp' = comp]_vars

C21_Witness ==
    /\ last.op = "renderSurfaceContent" /\ last.c = C /\ last.arg[1] = CK
    /\ last.err = NoErr
    /\ env.cls["Main"] = Plain
    /\ last.log = <<Ev("provider", C, CK)>>


\* The nested component s was rendered before event i of the call logged:
\* before the call, or by a rendering path the call took earlier
RenderedBy(log, i, s) ==
    \/ s \in DOMAIN comp /\ comp[s].wasRendered
    \/ \E j \in 1..(i - 1) : log[j] \in {Ev("render", s, NoId), Ev("renderAsSubComponent", s, NoId)}

\* C22: whenever a call that returns renders a surface s of component c that
\* holds a component, nothing is written into the surface by c and the
\* nested instance takes one path: updateComponent only, if it was rendered;
\* else, with markup, decorateAsSubComponent if c is decorating and
\* renderAsSubComponent if not; else its own render().  After the last two
\* the nested instance has wasRendered and inDocument
C22_ComponentSurfacePaths ==
    [][last'.err = NoErr =>
          \A i \in DOMAIN last'.log :
              last'.log[i].e = "componentSurface" =>
                  LET log == last'.log
                      c == log[i].c
                      s == log[i].id
                      markup == i < Len(log) /\ log[i + 1] = Ev("markup", c, s)
                      p == IF markup THEN i + 2 ELSE i + 1
                      rendered == RenderedBy(log, i, s)
                      decorating == last'.op = "decorate" /\ last'.c = c
                  IN /\ p \in DOMAIN log
                     /\ \A j \in DOMAIN log :
                           log[j].e \in {"hit", "miss", "dom"} => log[j].id # s
                     /\ rendered =>
                           /\ log[p] = Ev("update", s, NoId)
                           /\ \A j \in DOMAIN log :
                                 j > i => log[j] \notin {Ev("render", s, NoId),
                                                         Ev("renderAsSubComponent", s, NoId)}
                     /\ ~rendered /\ markup /\ decorating =>
                           log[p] = Ev("decorateAsSubComponent", s, NoId)
                     /\ ~rendered /\ markup /\ ~decorating =>
                           log[p] = Ev("renderAsSubComponent", s, NoId)
                     /\ ~rendered /\ ~markup => log[p] = Ev("render", s, NoId)
                     /\ ~rendered => comp'[s].wasRendered /\ comp'[s].inDocument]_vars

\* decorate() of the parent took the decorate-as-subcomponent path
C22_Witness ==
    /\ last.op = "decorate" /\ last.c = C /\ last.err = NoErr
    /\ \E i \in DOMAIN last.log :
          /\ last.log[i] = Ev("componentSurface", C, W)
          /\ last.log[i + 1] = Ev("markup", C, W)
          /\ last.log[i + 2] = Ev("decorateAsSubComponent", W, NoId)
    /\ comp[W].wasRendered /\ comp[W].inDocument


\* The place in the log where component c entered the step named e
At(log, e, c) == CHOOSE i \in DOMAIN log : log[i] = Ev(e, c, NoId)

\* The steps of render(), in the order the claim gives them
RenderSteps ==
    <<"render", "renderInternal", "renderSurfacesContent_", "attachInlineListeners_",
      "syncAttrs_", "attach">>

\* The attributes of component c that have a synchronization method
Synced(c) == {a \in DOMAIN comp[c].attrs : a \in {"elementClasses", "visible"} \cup Class(World, c).sync}

\* C23: a render() that returns entered each of its steps once, in the order
\* root content, surfaces, inline listeners, attribute synchronization,
\* attach; the surfaces are rendered between the second and the third or
\* inside attach, the listeners of the element are attached in the third
\* step, fireAttrChange_ is called once for every attribute in the fourth
\* (and calls the synchronization method of each attribute that has one,
\* once), the attached hook runs after them when the component
\* was not in the document, and attach still finds wasRendered false (it
\* finalizes the placeholder surfaces)
C23_RenderOrder ==
    [][\A c \in DOMAIN comp :
          Called("render", c) /\ last'.err = NoErr =>
             LET log == last'.log
                 mine(i) == log[i].c = c
             IN /\ \A k \in DOMAIN RenderSteps : Count(log, RenderSteps[k], c) = 1
                /\ \A k \in 1..(Len(RenderSteps) - 1) :
                      At(log, RenderSteps[k], c) < At(log, RenderSteps[k + 1], c)
                /\ \A i \in DOMAIN log :
                      /\ mine(i) /\ log[i].e \in {"hit", "miss", "dom"} =>
                            \/ /\ i > At(log, "renderSurfacesContent_", c)
                               /\ i < At(log, "attachInlineListeners_", c)
                            \/ i > At(log, "attach", c)
                      /\ log[i] = Ev("listen", c, ElementGroup) =>
                            /\ i > At(log, "attachInlineListeners_", c)
                            /\ i < At(log, "syncAttrs_", c)
                      /\ mine(i) /\ log[i].e \in {"fireAttrChange_", "sync"} =>
                            /\ i > At(log, "syncAttrs_", c)
                            /\ i < At(log, "attach", c)
                      /\ mine(i) /\ log[i].e \in {"attached", "updatePlaceholderSurfaces_"} =>
                            i > At(log, "attach", c)
                /\ \A a \in DOMAIN comp[c].attrs :
                      Cardinality({i \in DOMAIN log : log[i] = Ev("fireAttrChange_", c, <<a>>)}) = 1
                /\ Count(log, "fireAttrChange_", c) = Cardinality(DOMAIN comp[c].attrs)
                /\ \A a \in Synced(c) :
                      Cardinality({i \in DOMAIN log : log[i] = Ev("sync", c, <<a>>)}) = 1
                /\ Count(log, "sync", c) = Cardinality(Synced(c))
                /\ Count(log, "attached", c) = IF comp[c].inDocument THEN 0 ELSE 1
                /\ ~comp[c].inDocument =>
                      /\ Count(log, "updatePlaceholderSurfaces_", c) = 1
                      /\ At(log, "updatePlaceholderSurfaces_", c) < At(log, "attached", c)
                /\ ~comp[c].wasRendered
                /\ comp'[c].wasRendered /\ comp'[c].inDocument]_vars

C23_Witness ==
    /\ last.op = "render" /\ last.c = C /\ last.err = NoErr
    /\ env.cls["Main"] = Plain
    /\ Count(last.log, "sync", C) = 3
    /\ Count(last.log, "attached", C) = 1
    /\ \E i \in DOMAIN last.log : /\ last.log[i] = Ev("dom", C, CA)
                                    /\ i > At(last.log, "renderSurfacesContent_", C)
                                    /\ i < At(last.log, "attachInlineListeners_", C)


\* C24: attach(parent, sibling) on a component that is not in the document
\* leaves the element a child of the given parent (of the body when none is
\* given), immediately before the sibling when one is given
C24_AttachInsertsAtPosition ==
    [][\A c \in DOMAIN comp :
          Called("attach", c) /\ last'.err = NoErr /\ ~comp[c].inDocument =>
             LET element == comp'[c].element
                 parent == IF last'.arg[1] # 0 THEN last'.arg[1] ELSE BODY
                 kids == heap'[parent].kids
             IN /\ heap'[element].parent = parent
                /\ last'.arg[2] # 0 =>
                      \E i \in DOMAIN kids :
                          /\ i < Len(kids)
                          /\ kids[i] = NodeItem(element)
                          /\ kids[i + 1] = NodeItem(last'.arg[2])]_vars


\* C25: addSurface with the componentName of a component type that is not
\* registered ends with the error of the component registry
C25_UnregisteredComponentFails ==
    [][\A c \in DOMAIN comp :
          /\ Called("addSurface", c)
          /\ last'.arg[2].componentName # ""
          /\ last'.arg[2].componentName \notin DOMAIN env.cls
          => last'.err = "Error" /\ c \in DOMAIN comp' /\ comp'[c].components = comp[c].components]_vars

C25_Witness ==
    /\ last.op = "addSurface" /\ last.c = C
    /\ last.arg[2].componentName = "Gadget"
    /\ last.err = "Error"


\* The root markup of component c opens with an element that carries the
\* id of c and another tag than the element of c
Retags(c) ==
    LET root == Class(World, c).root
    IN /\ isString(root) /\ root.s # <<>>
       /\ root.s[1].k = "open" /\ root.s[1].v = c
       /\ root.s[1].tag # heap[comp[c].element].tag

\* C26: when the root markup carries the component id on an element with
\* another tag, render() (to a position that exists) raises nothing, logs the diagnostic once, keeps
\* the element and its tag, copies the attributes of the new element other
\* than id and class onto it, and appends the children of the new element
C26_TagMismatchIsIgnored ==
    [][\A c \in DOMAIN comp :
          /\ Called("render", c) /\ ~comp[c].wasRendered /\ Retags(c)
          /\ last'.arg[2] = 0 \/ heap[last'.arg[2]].parent = last'.arg[1]
          => LET element == comp[c].element
                 new == Class(World, c).root.s[1]
                 before == ObjFn(heap[element].attrs)
                 after == ObjFn(heap'[element].attrs)
                 copied == {new.attrs[i].key : i \in DOMAIN new.attrs} \ {CLASS}
             IN /\ last'.err = NoErr
                /\ Count(last'.log, "tagError", c) = 1
                /\ comp'[c].element = element
                /\ heap'[element].tag = heap[element].tag
                /\ heap'[element].id = c
                /\ DOMAIN after = DOMAIN before \cup copied
                /\ \A i \in DOMAIN new.attrs :
                      new.attrs[i].key # CLASS => after[new.attrs[i].key] = new.attrs[i].val
                /\ \A k \in DOMAIN before \ copied : after[k] = before[k]
                /\ StartsWith(innerHTML(heap', element),
                              innerHTML(heap, element) \o <<Class(World, c).root.s[2]>>)
                /\ querySelector(heap', element, CA) # 0]_vars

C26_Witness ==
    /\ last.op = "render" /\ last.c = C /\ last.err = NoErr
    /\ env.cls["Main"] = Retagged
    /\ Count(last.log, "tagError", C) = 1
    /\ heap[comp[C].element].tag = DIV
    /\ heap[comp[C].element].attrs = <<Entry(DATA, Y)>>


\* C27: when render, decorate, attach or setAttrs (with the partial render
\* its attrsChanged event triggers) has returned, the component's list of
\* collected surfaces is empty and none of its surfaces is marked handled
C27_BookkeepingIsTransient ==
    [][\A c \in DOMAIN comp :
          /\ \E op \in {"render", "decorate", "attach", "setAttrs"} : Called(op, c)
          /\ last'.err = NoErr
          => /\ comp'[c].collected = <<>>
             /\ \A e \in Owns(comp', c) \cap DOMAIN surf' : ~surf'[e].handled]_vars


\* C28: in one render(), decorate() or setAttrs() that returns, no surface
\* of the component has its content provider consulted twice or its DOM
\* content written twice
C28_NoSurfaceResolvedTwice ==
    [][\A c \in DOMAIN comp :
          /\ \E op \in {"render", "decorate", "setAttrs"} : Called(op, c)
          /\ last'.err = NoErr
          => \A e \in Owns(comp', c) :
                /\ Cardinality({i \in DOMAIN last'.log : last'.log[i] = Ev("provider", c, e)}) <= 1
                /\ Cardinality({i \in DOMAIN last'.log : last'.log[i] = Ev("dom", c, e)}) <= 1]_vars


\* C29: after renderSurfaceContent(id, content, cacheContent) has returned
\* for a surface that holds no component and whose resolved content is not
\* null, the cache state of the surface is that of cacheContent when one
\* was given and that of the content when none was; after decorate(), the
\* cache state of every surface it finalized is that of the surface's own
\* content, not of the markup read from the document
C29_CacheStateAfterRendering ==
    [][\A c \in DOMAIN comp :
          /\ /\ Called("renderSurfaceContent", c) /\ last'.err = NoErr
             /\ getSurface(World, c, last'.arg[1]) # NoId
             /\ surf[getSurface(World, c, last'.arg[1])].componentName = ""
             /\ isDefAndNotNull(Resolved(c, last'.arg[1], last'.arg[2]))
             => surf'[getSurface(World, c, last'.arg[1])].cacheState
                   = computeSurfaceCacheState_(World,
                        IF isDefAndNotNull(last'.arg[3]) THEN last'.arg[3]
                        ELSE Resolved(c, last'.arg[1], last'.arg[2]))
          /\ Called("decorate", c) /\ last'.err = NoErr =>
                \A i \in DOMAIN last'.log :
                    LET e == last'.log[i].id
                    IN /\ last'.log[i].e = "finalize" /\ last'.log[i].c = c
                       /\ e \in DOMAIN surf' /\ surf'[e].componentName = ""
                       => surf'[e].cacheState
                             = computeSurfaceCacheState_(World, getSurfaceContent_(After, c, e).ret)]_vars


\* C30: the ids given to anonymous placeholders depend only on the content and
\* its owner: an expansion of the element content ends as it ends on a
\* component whose counters are fresh (the same text with the same ids, the
\* same error or none), however many expansions ran before
C30_AnonymousIdsDeterministic ==
    [][\A c \in DOMAIN comp :
          Called("getElementExtendedContent", c)
          => LET fresh == getElementExtendedContent(
                              [World EXCEPT !.comp[c].genCount = Empty], c)
             IN /\ last'.err = fresh.err
                /\ last'.err = NoErr => last'.ret = fresh.ret]_vars


C32_DecoratingOnlyWhileRunning ==
    [][/\ \A c \in DOMAIN comp' : ~comp'[c].decorating
       /\ \A c \in DOMAIN comp :
             Called("decorate", c) /\ last'.err = NoErr
             => comp'[c].wasRendered /\ comp'[c].inDocument]_vars


\* The attributes a setAttrs(values) on component c changes
ChangedAttrs(c, values) ==
    {a \in DOMAIN ObjFn(values) :
        a \notin DOMAIN comp[c].attrs \/ comp[c].attrs[a] # ObjFn(values)[a]}

\* The surfaces of component c that are rendered from one of the attributes
AffectedBy(c, attrs) ==
    {s \in DOMAIN surf : \E a \in attrs \cap DOMAIN comp[c].sra :
                             \E i \in DOMAIN comp[c].sra[a] : comp[c].sra[a][i] = s}

\* The events of rendering a surface: its content is asked for, compared
\* with the cache, or written to the document
Rendering == {"provider", "hit", "miss", "dom"}

\* C33: a change of attributes made while the component is out of the
\* document renders no surface and leaves the surfaces and the document as
\* they are, and it calls the synchronization of every changed attribute
\* once; the attach() made next does not render the surfaces the changed
\* attributes belong to
C33_ChangesOutOfDocument ==
    [][\A c \in DOMAIN comp :
          /\ Called("setAttrs", c) /\ ~comp[c].inDocument
             => /\ last'.err = NoErr /\ surf' = surf /\ heap' = heap
                /\ \A i \in DOMAIN last'.log : last'.log[i].e \notin Rendering
                /\ \A a \in ChangedAttrs(c, last'.arg) :
                      /\ Cardinality({i \in DOMAIN last'.log :
                                         last'.log[i] = Ev("fireAttrChange_", c, <<a>>)}) = 1
                      /\ Cardinality({i \in DOMAIN last'.log :
                                         last'.log[i] = Ev("sync", c, <<a>>)})
                            = IF a \in Synced(c) THEN 1 ELSE 0
                /\ LET log == attach(After, c, 0, 0).log
                   IN \A i \in DOMAIN log :
                          log[i].e \in Rendering
                          => log[i].id \notin AffectedBy(c, ChangedAttrs(c, last'.arg))]_vars


\* The content the class gives the surface with an element id
ContentOf(id) == Class(World, C).content[getSurfaceId_(C, id, surf[id])].s

\* The surfaces a content names, and those it leads to through the contents
\* of the surfaces it names
Named(toks) == {toks[i].v : i \in Matches(toks)}
Further(S) == S \cup UNION {Named(ContentOf(id)) : id \in S}
LeadsTo(id) == Further(Further(Further(Named(ContentOf(id)))))

\* No content holds, directly or through nested surfaces, a placeholder of
\* its own surface
NoCircle == \A id \in {CA, CB, CK} : id \notin LeadsTo(id)

\* The placeholders of a content, those of the contents they stand for
\* included, down to a depth
RECURSIVE Placeholders(_, _)
Placeholders(toks, depth) ==
    IF toks = <<>> \/ depth = 0 THEN 0
    ELSE (IF Head(toks).k = "ph"
          THEN 1 + Placeholders(ContentOf(Head(toks).v), depth - 1)
          ELSE 0) + Placeholders(Tail(toks), depth)

\* The expansion has returned a text without placeholders, and has replaced
\* as many placeholders as the content holds
Expanded ==
    /\ last.op = "expanded" /\ last.err = NoErr
    /\ isString(last.ret) /\ Matches(last.ret.s) = {}
    /\ last.n = Placeholders(Class(World, C).root.s, MaxDepth)

\* C34: when no content holds a placeholder of its own surface, directly or
\* through nested surfaces, the expansion of the element content ends, and
\* each placeholder has been replaced once
C34_ExpansionTerminates == (last.op = "new" /\ NoCircle) ~> Expanded

C34_Witness == Expanded /\ NoCircle /\ last.n = 8


\* The text is matched as one placeholder, from its first character to its
\* last, with the captured id
OnePlaceholder(id) == last.ret = <<[from |-> 1, to |-> Len(last.text), id |-> id]>>

\* The id holds neither '~' nor ':'
WithoutStops ==
    isString(last.arg[1]) /\ \A i \in DOMAIN last.arg[1].s : last.arg[1].s[i] \notin {"~", ":"}

\* C35 as stated: the placeholder built for any id without '~' and ':' is
\* matched as one placeholder that captures the id, and the placeholder
\* built without id as one anonymous placeholder
C35_RoundTripOfEveryId ==
    last.op = "scan" /\ (WithoutStops \/ last.arg[1] = Undef) => OnePlaceholder(last.arg[1])

\* C35: the placeholder built for an id that is not empty and holds neither
\* '~' nor ':' is matched as one placeholder that captures the id; the
\* placeholder built for the empty id or without id is matched as one
\* anonymous placeholder
C35_RoundTrip ==
    last.op = "scan" /\ (WithoutStops \/ last.arg[1] = Undef)
    => OnePlaceholder(IF last.arg[1] = Str(<<>>) THEN Undef ELSE last.arg[1])

C35_Witness ==
    /\ last.op = "scan" /\ last.arg[1] = Str(<<"a", "-", "s">>)
    /\ last.ret = <<[from |-> 1, to |-> 15, id |-> Str(<<"a", "-", "s">>)]>>

====
